---- MODULE Spec2Model ----
(***************************************************************************)
(* Model of the mixed-chatbot repository:                                  *)
(*   - the rule-based physiotherapy chatbot of BACKUP/app.py (ChatSpec),   *)
(*   - the RAG service of rag_app (Spec).                                  *)
(* Python dicts are functions/records (a key is present iff it is in the   *)
(* DOMAIN), Python lists are sequences, None is the string "None".         *)
(***************************************************************************)
EXTENDS Integers, Sequences, FiniteSets, TLC

VARIABLES
    SESSIONS,   \* BACKUP/app.py: sender_id -> session dict
    chat,       \* observation of the last get_response call
    table,      \* rows of the SQLite documents table, in rowid order
    mirror,     \* documents of the in-memory vector store, in insertion order
    retriever,  \* QueryPipeline.retriever is not None
    data_dir,   \* the PDF files of settings.DATA_DIR: file name -> page texts
    clock,      \* datetime.now(), in indexing runs
    rag         \* observation of the last RAGService call

None == "None"

(***************************************************************************)
(* Strings as character sequences.  Chars maps every string literal of the *)
(* program (and every message of the model) to its characters.             *)
(***************************************************************************)
Chars ==
    ("hi" :> <<"h", "i">>) @@
    ("hello" :> <<"h", "e", "l", "l", "o">>) @@
    ("hey" :> <<"h", "e", "y">>) @@
    ("good morning" :> <<"g", "o", "o", "d", " ", "m", "o", "r", "n", "i", "n", "g">>) @@
    ("good evening" :> <<"g", "o", "o", "d", " ", "e", "v", "e", "n", "i", "n", "g">>) @@
    ("howdy" :> <<"h", "o", "w", "d", "y">>) @@
    (" there" :> <<" ", "t", "h", "e", "r", "e">>) @@
    ("!" :> <<"!">>) @@
    ("bye" :> <<"b", "y", "e">>) @@
    ("goodbye" :> <<"g", "o", "o", "d", "b", "y", "e">>) @@
    ("see you" :> <<"s", "e", "e", " ", "y", "o", "u">>) @@
    ("ttyl" :> <<"t", "t", "y", "l">>) @@
    ("talk to you later" :> <<"t", "a", "l", "k", " ", "t", "o", " ", "y", "o", "u", " ", "l", "a", "t", "e", "r">>) @@
    ("thanks" :> <<"t", "h", "a", "n", "k", "s">>) @@
    ("thank you" :> <<"t", "h", "a", "n", "k", " ", "y", "o", "u">>) @@
    ("thx" :> <<"t", "h", "x">>) @@
    ("thank" :> <<"t", "h", "a", "n", "k">>) @@
    ("are you a bot" :> <<"a", "r", "e", " ", "y", "o", "u", " ", "a", " ", "b", "o", "t">>) @@
    ("are you human" :> <<"a", "r", "e", " ", "y", "o", "u", " ", "h", "u", "m", "a", "n">>) @@
    ("who are you" :> <<"w", "h", "o", " ", "a", "r", "e", " ", "y", "o", "u">>) @@
    ("what are you" :> <<"w", "h", "a", "t", " ", "a", "r", "e", " ", "y", "o", "u">>) @@
    ("exercise" :> <<"e", "x", "e", "r", "c", "i", "s", "e">>) @@
    (" for " :> <<" ", "f", "o", "r", " ">>) @@
    ("what" :> <<"w", "h", "a", "t">>) @@
    ("recommend" :> <<"r", "e", "c", "o", "m", "m", "e", "n", "d">>) @@
    ("suggest" :> <<"s", "u", "g", "g", "e", "s", "t">>) @@
    (" exercise" :> <<" ", "e", "x", "e", "r", "c", "i", "s", "e">>) @@
    (" to " :> <<" ", "t", "o", " ">>) @@
    ("help" :> <<"h", "e", "l", "p">>) @@
    (" with " :> <<" ", "w", "i", "t", "h", " ">>) @@
    ("pain" :> <<"p", "a", "i", "n">>) @@
    ("ache" :> <<"a", "c", "h", "e">>) @@
    ("stiffness" :> <<"s", "t", "i", "f", "f", "n", "e", "s", "s">>) @@
    ("injury" :> <<"i", "n", "j", "u", "r", "y">>) @@
    ("strain" :> <<"s", "t", "r", "a", "i", "n">>) @@
    ("sprain" :> <<"s", "p", "r", "a", "i", "n">>) @@
    ("my " :> <<"m", "y", " ">>) @@
    ("have " :> <<"h", "a", "v", "e", " ">>) @@
    ("suffering " :> <<"s", "u", "f", "f", "e", "r", "i", "n", "g", " ">>) @@
    ("from " :> <<"f", "r", "o", "m", " ">>) @@
    ("what " :> <<"w", "h", "a", "t", " ">>) @@
    ("how " :> <<"h", "o", "w", " ">>) @@
    ("can " :> <<"c", "a", "n", " ">>) @@
    ("should " :> <<"s", "h", "o", "u", "l", "d", " ">>) @@
    ("i do for " :> <<"i", " ", "d", "o", " ", "f", "o", "r", " ">>) @@
    ("one do for " :> <<"o", "n", "e", " ", "d", "o", " ", "f", "o", "r", " ">>) @@
    ("strengthen" :> <<"s", "t", "r", "e", "n", "g", "t", "h", "e", "n">>) @@
    (" my " :> <<" ", "m", "y", " ">>) @@
    (" the " :> <<" ", "t", "h", "e", " ">>) @@
    ("what is " :> <<"w", "h", "a", "t", " ", "i", "s", " ">>) @@
    ("tell me about " :> <<"t", "e", "l", "l", " ", "m", "e", " ", "a", "b", "o", "u", "t", " ">>) @@
    ("how does " :> <<"h", "o", "w", " ", "d", "o", "e", "s", " ">>) @@
    ("how do " :> <<"h", "o", "w", " ", "d", "o", " ">>) @@
    ("benefits of " :> <<"b", "e", "n", "e", "f", "i", "t", "s", " ", "o", "f", " ">>) @@
    ("physiotherapy" :> <<"p", "h", "y", "s", "i", "o", "t", "h", "e", "r", "a", "p", "y">>) @@
    ("physical therapy" :> <<"p", "h", "y", "s", "i", "c", "a", "l", " ", "t", "h", "e", "r", "a", "p", "y">>) @@
    (" work" :> <<" ", "w", "o", "r", "k">>) @@
    ("help me" :> <<"h", "e", "l", "p", " ", "m", "e">>) @@
    ("what can you do" :> <<"w", "h", "a", "t", " ", "c", "a", "n", " ", "y", "o", "u", " ", "d", "o">>) @@
    ("how can you help" :> <<"h", "o", "w", " ", "c", "a", "n", " ", "y", "o", "u", " ", "h", "e", "l", "p">>) @@
    ("what can i ask" :> <<"w", "h", "a", "t", " ", "c", "a", "n", " ", "i", " ", "a", "s", "k">>) @@
    ("back" :> <<"b", "a", "c", "k">>) @@
    ("neck" :> <<"n", "e", "c", "k">>) @@
    ("shoulder" :> <<"s", "h", "o", "u", "l", "d", "e", "r">>) @@
    ("knee" :> <<"k", "n", "e", "e">>) @@
    ("ankle" :> <<"a", "n", "k", "l", "e">>) @@
    ("hip" :> <<"h", "i", "p">>) @@
    ("wrist" :> <<"w", "r", "i", "s", "t">>) @@
    ("elbow" :> <<"e", "l", "b", "o", "w">>) @@
    ("foot" :> <<"f", "o", "o", "t">>) @@
    ("leg" :> <<"l", "e", "g">>) @@
    ("arm" :> <<"a", "r", "m">>) @@
    ("hamstring" :> <<"h", "a", "m", "s", "t", "r", "i", "n", "g">>) @@
    ("calf" :> <<"c", "a", "l", "f">>) @@
    ("quadricep" :> <<"q", "u", "a", "d", "r", "i", "c", "e", "p">>) @@
    ("lower back" :> <<"l", "o", "w", "e", "r", " ", "b", "a", "c", "k">>) @@
    ("upper back" :> <<"u", "p", "p", "e", "r", " ", "b", "a", "c", "k">>) @@
    ("weakness" :> <<"w", "e", "a", "k", "n", "e", "s", "s">>) @@
    ("rehabilitation" :> <<"r", "e", "h", "a", "b", "i", "l", "i", "t", "a", "t", "i", "o", "n">>) @@
    ("recovery" :> <<"r", "e", "c", "o", "v", "e", "r", "y">>) @@
    ("strengthening" :> <<"s", "t", "r", "e", "n", "g", "t", "h", "e", "n", "i", "n", "g">>) @@
    ("mobility" :> <<"m", "o", "b", "i", "l", "i", "t", "y">>) @@
    ("flexibility" :> <<"f", "l", "e", "x", "i", "b", "i", "l", "i", "t", "y">>) @@
    ("Hi" :> <<"H", "i">>) @@
    ("hello there!" :> <<"h", "e", "l", "l", "o", " ", "t", "h", "e", "r", "e", "!">>) @@
    ("Thanks, my knee pain is gone" :> <<"T", "h", "a", "n", "k", "s", ",", " ", "m", "y", " ", "k", "n", "e", "e", " ", "p", "a", "i", "n", " ", "i", "s", " ", "g", "o", "n", "e">>) @@
    ("what is physiotherapy" :> <<"w", "h", "a", "t", " ", "i", "s", " ", "p", "h", "y", "s", "i", "o", "t", "h", "e", "r", "a", "p", "y">>) @@
    ("I have knee pain" :> <<"I", " ", "h", "a", "v", "e", " ", "k", "n", "e", "e", " ", "p", "a", "i", "n">>) @@
    ("lower back sprain" :> <<"l", "o", "w", "e", "r", " ", "b", "a", "c", "k", " ", "s", "p", "r", "a", "i", "n">>) @@
    ("exercises for my ankle" :> <<"e", "x", "e", "r", "c", "i", "s", "e", "s", " ", "f", "o", "r", " ", "m", "y", " ", "a", "n", "k", "l", "e">>) @@
    ("exercises for fitness" :> <<"e", "x", "e", "r", "c", "i", "s", "e", "s", " ", "f", "o", "r", " ", "f", "i", "t", "n", "e", "s", "s">>) @@
    ("help with shoulder stiffness" :> <<"h", "e", "l", "p", " ", "w", "i", "t", "h", " ", "s", "h", "o", "u", "l", "d", "e", "r", " ", "s", "t", "i", "f", "f", "n", "e", "s", "s">>) @@
    ("I have a headache" :> <<"I", " ", "h", "a", "v", "e", " ", "a", " ", "h", "e", "a", "d", "a", "c", "h", "e">>) @@
    ("ok" :> <<"o", "k">>) @@
    ("my hip" :> <<"m", "y", " ", "h", "i", "p">>) @@
    ("wrist injury" :> <<"w", "r", "i", "s", "t", " ", "i", "n", "j", "u", "r", "y">>) @@
    ("Rest the knee." :> <<"R", "e", "s", "t", " ", "t", "h", "e", " ", "k", "n", "e", "e", ".">>) @@
    ("Ice  &  rest" :> <<"I", "c", "e", " ", " ", "&", " ", " ", "r", "e", "s", "t">>) @@
    ("##" :> <<"#", "#">>) @@
    ("ok." :> <<"o", "k", ".">>) @@
    (" \n" :> <<" ", "\n">>) @@
    ("knee rest" :> <<"k", "n", "e", "e", " ", "r", "e", "s", "t">>) @@
    ("ice" :> <<"i", "c", "e">>) @@
    ("  " :> <<" ", " ">>) @@
    ("rest" :> <<"r", "e", "s", "t">>) @@
    ("the" :> <<"t", "h", "e">>) @@
    ("test" :> <<"t", "e", "s", "t">>) @@
    ("ok" :> <<"o", "k">>)

\* the messages the senders may type
Messages ==
    {"Hi", "bye", "Thanks, my knee pain is gone", "who are you", "help",
     "what is physiotherapy", "I have knee pain", "knee", "pain",
     "lower back sprain", "exercises for my ankle", "exercises for fitness", "ok"}

CharsOf(str) == IF str = "" THEN <<>> ELSE Chars[str]

UpperCase == <<"A","B","C","D","E","F","G","H","I","J","K","L","M",
               "N","O","P","Q","R","S","T","U","V","W","X","Y","Z">>
LowerCase == <<"a","b","c","d","e","f","g","h","i","j","k","l","m",
               "n","o","p","q","r","s","t","u","v","w","x","y","z">>

\* str.lower()
lower(s) ==
    [i \in 1..Len(s) |->
        IF \E k \in 1..26 : UpperCase[k] = s[i]
        THEN LowerCase[CHOOSE k \in 1..26 : UpperCase[k] = s[i]]
        ELSE s[i]]

\* regex class \w (ASCII)
WordChar(c) ==
    \/ \E k \in 1..26 : LowerCase[k] = c \/ UpperCase[k] = c
    \/ c \in {"0","1","2","3","4","5","6","7","8","9","_"}

\* the literal w occurs in s at position i
IsAt(s, w, i) ==
    /\ i >= 1
    /\ i + Len(w) - 1 <= Len(s)
    /\ \A k \in 1..Len(w) : s[i + k - 1] = w[k]

\* no newline in s[i..j]  ('.' does not match a newline)
NoNL(s, i, j) == \A k \in i..j : s[k] # "\n"

(***************************************************************************)
(* The regular expressions of INTENT_PATTERNS.  Every pattern of the table *)
(* has the shape  [^] seg (.* seg)* tail  where a segment is a             *)
(* concatenation of alternations of literals (an optional group is an      *)
(* alternation with ""), and tail is "$", ".*$" or ".*".                   *)
(***************************************************************************)
RECURSIVE SegEnds(_, _, _)
\* positions right after a match of segment seg that starts at j
SegEnds(s, seg, j) ==
    IF seg = <<>> THEN {j}
    ELSE UNION { SegEnds(s, Tail(seg), j + Len(CharsOf(a))) :
                    a \in {x \in Head(seg) : IsAt(s, CharsOf(x), j)} }

RECURSIVE SegsEnds(_, _, _)
\* positions right after a match of  seg1 .* seg2 .* ...  starting at j
SegsEnds(s, segs, j) ==
    LET e1 == SegEnds(s, Head(segs), j) IN
    IF Len(segs) = 1 THEN e1
    ELSE UNION { UNION { SegsEnds(s, Tail(segs), k) :
                            k \in {k \in e..(Len(s) + 1) : NoNL(s, e, k - 1)} } :
                 e \in e1 }

\* re.search(p, s)
re_search(p, s) ==
    LET starts == IF p.anchored THEN {1} ELSE 1..(Len(s) + 1)
        ends   == UNION { SegsEnds(s, p.segs, j) : j \in starts }
        n      == Len(s)
        nlEnd  == n >= 1 /\ s[n] = "\n"
    IN  CASE p.tail = "any" -> ends # {}
          [] p.tail = "end" -> \E e \in ends : e = n + 1 \/ (nlEnd /\ e = n)
          [] p.tail = "dotend" ->
                \E e \in ends : NoNL(s, e, n) \/ (nlEnd /\ NoNL(s, e, n - 1))

Pat(anchored, segs, tail) == [anchored |-> anchored, segs |-> segs, tail |-> tail]

PainWords  == {"pain", "ache", "stiffness", "injury", "strain", "sprain"}
PainWords4 == {"pain", "ache", "stiffness", "injury"}
Physio     == {"physiotherapy", "physical therapy"}

\* INTENT_PATTERNS, in dict order
INTENT_PATTERNS == <<
    [intent |-> "greet", patterns |-> <<
        Pat(TRUE, << <<{"hi","hello","hey","good morning","good evening","howdy"},
                       {"", " there"}, {"", "!"}>> >>, "end") >>],
    [intent |-> "goodbye", patterns |-> <<
        Pat(TRUE, << <<{"bye","goodbye","see you","ttyl","talk to you later"},
                       {"", "!"}>> >>, "end") >>],
    [intent |-> "thanks", patterns |-> <<
        Pat(TRUE, << <<{"thanks","thank you","thx","thank"}>> >>, "dotend") >>],
    [intent |-> "bot_challenge", patterns |-> <<
        Pat(TRUE, << <<{"are you a bot","are you human","who are you","what are you"}>> >>,
            "dotend") >>],
    [intent |-> "ask_exercise", patterns |-> <<
        Pat(FALSE, << <<{"exercise"}>>, <<{" for "}>> >>, "any"),
        Pat(FALSE, << <<{"what","recommend","suggest"}>>, <<{" exercise"}>>,
                      <<{" for ", " to "}>> >>, "any"),
        Pat(FALSE, << <<{"help"}>>, <<{" with ", " for "}>>, <<PainWords>> >>, "any"),
        Pat(FALSE, << <<{"my ","have ","suffering ","from "}>>, <<PainWords>> >>, "any"),
        Pat(FALSE, << <<{"what ","how "}>>, <<{"can ","should "}>>,
                      <<{"i do for ","one do for "}>>, <<PainWords4>> >>, "any"),
        Pat(FALSE, << <<{"strengthen"}>>, <<{" my ", " the "}>> >>, "any") >>],
    [intent |-> "ask_physiotherapy_info", patterns |-> <<
        Pat(TRUE, << <<{"what is "}, Physio>> >>, "dotend"),
        Pat(TRUE, << <<{"tell me about "}, Physio>> >>, "dotend"),
        Pat(TRUE, << <<{"how does ", "how do "}, Physio, {" work"}>> >>, "dotend"),
        Pat(TRUE, << <<{"benefits of "}, Physio>> >>, "dotend") >>],
    [intent |-> "request_help", patterns |-> <<
        Pat(TRUE, << <<{"help","help me","what can you do","how can you help",
                        "what can i ask"}>> >>, "dotend") >>]
>>

BODY_PARTS == <<"back", "neck", "shoulder", "knee", "ankle", "hip", "wrist", "elbow",
                "foot", "leg", "arm", "hamstring", "calf", "quadricep",
                "lower back", "upper back">>

CONDITIONS == <<"pain", "stiffness", "sprain", "strain", "weakness", "injury",
                "rehabilitation", "recovery", "strengthening", "mobility", "flexibility">>

\* re.search(r'\b' + w + r'\b', s): w starts and ends with a word character
WholeWord(s, w) ==
    \E i \in 1..Len(s) :
        /\ IsAt(s, w, i)
        /\ (i = 1 \/ ~WordChar(s[i - 1]))
        /\ (i + Len(w) > Len(s) \/ ~WordChar(s[i + Len(w)]))

\* an extraction in which a later entry of the list replaces an earlier one
FirstWord_last(list, s) ==
    LET hits == {i \in 1..Len(list) : WholeWord(s, CharsOf(list[i]))} IN
    IF hits = {} THEN None
    ELSE list[CHOOSE i \in hits : \A k \in hits : i >= k]

\* the first entry of list, in list order, that is a whole word of s; None if none
FirstWord(list, s) ==
    LET hits == {i \in 1..Len(list) : WholeWord(s, CharsOf(list[i]))} IN
    IF hits = {} THEN None
    ELSE list[CHOOSE i \in hits : \A k \in hits : i <= k]

\* the dict built by extract_entities: a key is present only when found
extract_entities(message) ==
    LET s    == lower(message)
        part == FirstWord(BODY_PARTS, s)
        cond == FirstWord(CONDITIONS, s)
    IN  [k \in ({"body_part"} \ (IF part = None THEN {"body_part"} ELSE {}))
               \cup ({"condition"} \ (IF cond = None THEN {"condition"} ELSE {}))
           |-> IF k = "body_part" THEN part ELSE cond]

\* the first intent, in table order, one of whose patterns matches; None if none
FirstIntent(s) ==
    LET hits == {i \in 1..Len(INTENT_PATTERNS) :
                    \E k \in 1..Len(INTENT_PATTERNS[i].patterns) :
                        re_search(INTENT_PATTERNS[i].patterns[k], s)} IN
    IF hits = {} THEN None
    ELSE INTENT_PATTERNS[CHOOSE i \in hits : \A k \in hits : i <= k].intent

NoEntities == [k \in {} |-> None]

\* detect_intent that extracts the entities whatever the intent is
detect_intent_allentities(message) ==
    LET found == FirstIntent(lower(message)) IN
    [intent   |-> IF found = None THEN "default" ELSE found,
     entities |-> extract_entities(message)]

detect_intent(message) ==
    LET found  == FirstIntent(lower(message))
        intent == IF found = None THEN "default" ELSE found
    IN  [intent   |-> intent,
         entities |-> IF intent \in {"ask_exercise", "default"}
                      THEN extract_entities(message)
                      ELSE NoEntities]

(***************************************************************************)
(* actions.py: EXERCISES, body part -> ordered dict condition -> exercises *)
(* (an exercise is represented by its name).                               *)
(***************************************************************************)
EXERCISES ==
    ("back" :> << [condition |-> "pain",
                   exercises |-> <<"Pelvic Tilt", "Knee-to-Chest Stretch", "Cat-Cow Stretch">>],
                  [condition |-> "stiffness",
                   exercises |-> <<"Seated Spinal Twist", "Child's Pose">>] >>) @@
    ("neck" :> << [condition |-> "pain",
                   exercises |-> <<"Neck Rotation", "Chin Tucks">>],
                  [condition |-> "stiffness",
                   exercises |-> <<"Neck Stretches", "Shoulder Blade Squeeze">>] >>) @@
    ("shoulder" :> << [condition |-> "pain",
                       exercises |-> <<"Pendulum Exercise", "Shoulder External Rotation">>],
                      [condition |-> "stiffness",
                       exercises |-> <<"Cross-Body Shoulder Stretch", "Wall Angels">>] >>) @@
    ("knee" :> << [condition |-> "pain",
                   exercises |-> <<"Straight Leg Raises", "Hamstring Stretch">>],
                  [condition |-> "stiffness",
                   exercises |-> <<"Knee Bends", "Wall Slides">>] >>) @@
    ("ankle" :> << [condition |-> "pain",
                    exercises |-> <<"Ankle Circles", "Towel Stretch">>],
                   [condition |-> "sprain",
                    exercises |-> <<"Alphabet Drawing", "Heel Raises">>] >>) @@
    ("general" :> << [condition |-> "conditioning",
                      exercises |-> <<"Walking", "Chair Squats", "Arm Circles">>],
                     [condition |-> "stretching",
                      exercises |-> <<"Full Body Stretch", "Calf Stretch">>] >>)

\* EXERCISES.get(body_part.lower(), EXERCISES["general"]); the slot values are lower case
ExercisesOf(body_part) ==
    IF body_part \in DOMAIN EXERCISES THEN EXERCISES[body_part] ELSE EXERCISES["general"]

\* d.get(condition), None when the key is absent
ConditionEntry(d, condition) ==
    LET hits == {i \in 1..Len(d) : d[i].condition = condition} IN
    IF hits = {} THEN None ELSE d[CHOOSE i \in hits : TRUE].exercises

\* a recommendation without the fall-back to the first condition of the entry
recommend_exercises_nofallback(body_part0, condition0) ==
    LET body_part == IF body_part0 = None THEN "general" ELSE body_part0
        condition == IF condition0 = None
                     THEN (IF body_part = "general" THEN "conditioning"
                           ELSE ExercisesOf(body_part)[1].condition)
                     ELSE condition0
        found == ConditionEntry(ExercisesOf(body_part), condition)
    IN  IF found # None
        THEN [kind |-> "recommend_exercises", condition |-> condition,
              body_part |-> body_part, exercises |-> found]
        ELSE [kind |-> "no_specific_exercises", condition |-> condition,
              body_part |-> body_part, exercises |-> <<>>]

\* the text built by recommend_exercises, as the parts it is formatted from
recommend_exercises(body_part0, condition0) ==
    LET body_part == IF body_part0 = None THEN "general" ELSE body_part0
        condition == IF condition0 = None
                     THEN (IF body_part = "general" THEN "conditioning"
                           ELSE ExercisesOf(body_part)[1].condition)
                     ELSE condition0
        body_exercises == ExercisesOf(body_part)
        found == ConditionEntry(body_exercises, condition)
        condition_exercises == IF found = None THEN body_exercises[1].exercises ELSE found
    IN  IF condition_exercises # <<>>
        THEN [kind |-> "recommend_exercises", condition |-> condition,
              body_part |-> body_part, exercises |-> condition_exercises]
        ELSE [kind |-> "no_specific_exercises", condition |-> condition,
              body_part |-> body_part, exercises |-> <<>>]

ask_body_part == [kind |-> "ask_body_part"]

ask_condition(body_part) ==
    IF body_part # None /\ body_part \in DOMAIN EXERCISES
    THEN [kind |-> "ask_condition", body_part |-> body_part,
          conditions |-> [i \in 1..Len(EXERCISES[body_part]) |->
                              EXERCISES[body_part][i].condition]]
    ELSE [kind |-> "ask_condition"]

provide_general_info == [kind |-> "general_info"]

\* RESPONSES[intent][0]
RESPONSES(intent) == [kind |-> intent]

NewSession == [last_intent |-> None, body_part |-> None, condition |-> None,
               awaiting |-> None]

\* intent branches of get_response that only answer with a fixed text
SmallTalk == {"greet", "goodbye", "thanks", "bot_challenge", "request_help"}

\* SlotBranch that forgets to reset the slots after recommending
SlotBranch_keepslots(s, entities) ==
    IF s.body_part # None /\ s.condition # None
    THEN [session |-> s,
          text    |-> recommend_exercises(s.body_part, s.condition)]
    ELSE IF s.body_part # None
    THEN [session |-> [s EXCEPT !.awaiting = "condition"],
          text    |-> ask_condition(s.body_part)]
    ELSE IF "body_part" \in DOMAIN entities
    THEN [session |-> [s EXCEPT !.body_part = entities.body_part,
                                !.awaiting = "condition"],
          text    |-> ask_condition(entities.body_part)]
    ELSE [session |-> [s EXCEPT !.awaiting = "body_part"],
          text    |-> ask_body_part]

\* SlotBranch that, knowing neither slot, waits for both at once
SlotBranch_awaitboth(s, entities) ==
    IF s.body_part # None \/ "body_part" \in DOMAIN entities
    THEN SlotBranch_keepslots(s, entities)
    ELSE [session |-> [s EXCEPT !.awaiting = "body_part and condition"],
          text    |-> ask_body_part]

\* SlotBranch that asks for the body part again although the session holds one
SlotBranch_askbodyagain(s, entities) ==
    IF s.body_part # None /\ s.condition = None
    THEN [session |-> [s EXCEPT !.awaiting = "body_part"],
          text    |-> ask_body_part]
    ELSE SlotBranch_keepslots(s, entities)

\* the slot-filling branch shared by the ask_exercise and default intents
\* (app.py 252-266 and 271-285), on the session s after the entity update
SlotBranch(s, entities) ==
    IF s.body_part # None /\ s.condition # None
    THEN [session |-> [s EXCEPT !.body_part = None, !.condition = None],
          text    |-> recommend_exercises(s.body_part, s.condition)]
    ELSE IF s.body_part # None
    THEN [session |-> [s EXCEPT !.awaiting = "condition"],
          text    |-> ask_condition(s.body_part)]
    ELSE IF "body_part" \in DOMAIN entities
    THEN [session |-> [s EXCEPT !.body_part = entities.body_part,
                                !.awaiting = "condition"],
          text    |-> ask_condition(entities.body_part)]
    ELSE [session |-> [s EXCEPT !.awaiting = "body_part"],
          text    |-> ask_body_part]

\* get_response on the sender's session s0 with the parsed message: the
\* session after the call, the session right after the entity update
\* (app.py 211-215) and the returned list of responses
get_response_on(s0, parsed) ==
    LET intent   == parsed.intent
        entities == parsed.entities
        s1 == [s0 EXCEPT
                 !.body_part = IF "body_part" \in DOMAIN entities
                               THEN entities.body_part ELSE @,
                 !.condition = IF "condition" \in DOMAIN entities
                               THEN entities.condition ELSE @]
    IN  IF s1.awaiting = "body_part" /\ "body_part" \in DOMAIN entities
        THEN [session   |-> [s1 EXCEPT !.awaiting = "condition"],
              filled    |-> s1,
              responses |-> << [text |-> ask_condition(s1.body_part)] >>]
        ELSE IF s1.awaiting = "condition" /\ "condition" \in DOMAIN entities
        THEN [session   |-> [s1 EXCEPT !.awaiting = None, !.body_part = None,
                                       !.condition = None],
              filled    |-> s1,
              responses |-> << [text |-> recommend_exercises(s1.body_part, s1.condition)] >>]
        ELSE
            LET branch ==
                  IF intent \in SmallTalk
                  THEN [session |-> s1, text |-> RESPONSES(intent)]
                  ELSE IF intent = "ask_physiotherapy_info"
                  THEN [session |-> s1, text |-> provide_general_info]
                  ELSE IF intent = "ask_exercise"
                  THEN SlotBranch(s1, entities)
                  ELSE IF DOMAIN entities # {}
                  THEN SlotBranch(s1, entities)
                  ELSE [session |-> s1, text |-> RESPONSES("default")]
            IN  [session   |-> [branch.session EXCEPT !.last_intent = intent],
                 filled    |-> s1,
                 responses |-> << [text |-> branch.text] >>]

\* detect_intent of every message of the model, evaluated once
Parsed == [m \in Messages |-> detect_intent(CharsOf(m))]

Senders == {"u1", "u2"}

NoCall == [sender |-> None]

ragVars == <<table, mirror, retriever, data_dir, clock, rag>>

chatVars == <<SESSIONS, chat>>

vars == <<SESSIONS, chat, table, mirror, retriever, data_dir, clock, rag>>

\* no message received yet: SESSIONS = {}
SessionsInit ==
    /\ SESSIONS = [s \in {} |-> NewSession]
    /\ chat = NoCall

\* get_response(sender_id, message)
get_response(sender_id, message) ==
    LET before == IF sender_id \in DOMAIN SESSIONS THEN SESSIONS[sender_id]
                  ELSE NewSession
        parsed == Parsed[message]
        out    == get_response_on(before, parsed)
    IN  /\ SESSIONS' = [s \in DOMAIN SESSIONS \cup {sender_id} |->
                           IF s = sender_id THEN out.session ELSE SESSIONS[s]]
        /\ chat' = [sender |-> sender_id, message |-> message,
                    intent |-> parsed.intent, entities |-> parsed.entities,
                    before |-> before, filled |-> out.filled,
                    responses |-> out.responses]


(***************************************************************************)
(* Chatbot claims (checked under ChatSpec)                                 *)
(***************************************************************************)
Called == chat.sender # None

BothEntities == {"body_part", "condition"} \subseteq DOMAIN chat.entities

IsRecommendation == chat.responses[1].text.kind = "recommend_exercises"

IsQuestion == chat.responses[1].text.kind \in {"ask_body_part", "ask_condition"}

\* the last call started from a session with no pending slot-fill and its
\* message was detected as ask_exercise with both entities
C2_Case ==
    /\ Called
    /\ chat.before.awaiting = None
    /\ chat.before.body_part = None
    /\ chat.before.condition = None
    /\ chat.intent = "ask_exercise"
    /\ BothEntities

\* C2: from a session with no pending slot-fill (new, or awaiting = None and
\* both slots empty), a message detected as ask_exercise that contains a body
\* part and a condition is answered in the same call by exactly the exercise
\* recommendation for that body part and condition, and afterwards the
\* session's body_part and condition are both None.
C2_DirectRecommendation ==
    C2_Case =>
        /\ chat.responses =
              << [text |-> recommend_exercises(chat.entities.body_part,
                                               chat.entities.condition)] >>
        /\ SESSIONS[chat.sender].body_part = None
        /\ SESSIONS[chat.sender].condition = None

C2_Witness ==
    /\ C2_Case
    /\ chat.message = "I have knee pain"
    /\ IsRecommendation
    /\ chat.responses[1].text.body_part = "knee"
    /\ chat.responses[1].text.condition = "pain"
    /\ chat.before.last_intent # None

\* the message of the last call filled at least one slot and both slots were
\* present after the fill
C5_Case ==
    /\ Called
    /\ DOMAIN chat.entities # {}
    /\ chat.filled.body_part # None
    /\ chat.filled.condition # None

\* C5: whenever a message fills at least one slot and both slots are present
\* after the fill, the response to that message is the exercise
\* recommendation, never a further question.
C5_RecommendWhenBothSlots ==
    C5_Case => (IsRecommendation /\ ~IsQuestion)

\* C6: after every call whose response is an exercise recommendation the
\* session is idle: awaiting, body_part and condition are all None.
C6_IdleAfterRecommendation ==
    (Called /\ IsRecommendation) =>
        /\ SESSIONS[chat.sender].awaiting = None
        /\ SESSIONS[chat.sender].body_part = None
        /\ SESSIONS[chat.sender].condition = None

\* the intents (positions in INTENT_PATTERNS) one of whose patterns matches
\* the lower-cased message, for every message of the model
MatchingIntents ==
    [m \in Messages |->
        {i \in 1..Len(INTENT_PATTERNS) :
            \E k \in 1..Len(INTENT_PATTERNS[i].patterns) :
                re_search(INTENT_PATTERNS[i].patterns[k], lower(CharsOf(m)))}]

\* the entries (positions in BODY_PARTS and in CONDITIONS) that occur as a
\* whole word in the lower-cased message
WordsIn ==
    [m \in Messages |->
        [body_part |-> {i \in 1..Len(BODY_PARTS) :
                          WholeWord(lower(CharsOf(m)), CharsOf(BODY_PARTS[i]))},
         condition |-> {i \in 1..Len(CONDITIONS) :
                          WholeWord(lower(CharsOf(m)), CharsOf(CONDITIONS[i]))}]]

\* extract_entities of every message of the model
Extracted == [m \in Messages |-> extract_entities(CharsOf(m))]

\* i is the lowest position among the hits
IsFirst(i, hits) == i \in hits /\ \A j \in hits : i <= j

\* C19: for the message of a call, extract_entities returns as body_part the
\* entry of BODY_PARTS that occurs as a whole word in the lower-cased message
\* and comes first in list order (no body_part key when none occurs), and as
\* condition the first such entry of CONDITIONS; detect_intent returns the
\* intent that comes first in INTENT_PATTERNS among those with a matching
\* pattern, and "default" when no pattern matches.
C19_FirstMatchWins ==
    Called =>
        LET m == chat.message IN
        /\ IF MatchingIntents[m] = {} THEN chat.intent = "default"
           ELSE \E i \in MatchingIntents[m] :
                   IsFirst(i, MatchingIntents[m]) /\ chat.intent = INTENT_PATTERNS[i].intent
        /\ ("body_part" \in DOMAIN Extracted[m]) <=> (WordsIn[m].body_part # {})
        /\ \A i \in WordsIn[m].body_part :
              IsFirst(i, WordsIn[m].body_part) => Extracted[m].body_part = BODY_PARTS[i]
        /\ ("condition" \in DOMAIN Extracted[m]) <=> (WordsIn[m].condition # {})
        /\ \A i \in WordsIn[m].condition :
              IsFirst(i, WordsIn[m].condition) => Extracted[m].condition = CONDITIONS[i]
        /\ chat.intent \in {"ask_exercise", "default"} => chat.entities = Extracted[m]

\* "lower back sprain" holds two entries of BODY_PARTS, "back" and "lower
\* back"; the call took the earlier one
C19_Witness ==
    /\ Called
    /\ chat.message = "lower back sprain"
    /\ Cardinality(WordsIn[chat.message].body_part) = 2
    /\ chat.intent = "default"
    /\ chat.entities.body_part = "back"
    /\ chat.entities.condition = "sprain"

\* C20: in every reachable state the awaiting field of every session is None
\* (idle), "body_part" or "condition": one value, never both slots at once.
C20_OneAwaitingState ==
    \A s \in DOMAIN SESSIONS : SESSIONS[s].awaiting \in {None, "body_part", "condition"}

\* two sessions, one waiting for the body part and one for the condition,
\* the second after having been idle with both slots empty
C20_Witness ==
    /\ DOMAIN SESSIONS = Senders
    /\ \E s, t \in Senders :
          /\ SESSIONS[s].awaiting = "body_part"
          /\ SESSIONS[t].awaiting = "condition"
          /\ chat.sender = t
          /\ chat.before.awaiting = None

(***************************************************************************)
(*                              RAG service                                *)
(***************************************************************************)

\* ---- text helpers ------------------------------------------------------
\* regex class \s
IsSpace(c) == c \in {" ", "\n", "\t", "\r"}

RECURSIVE lstrip(_)
lstrip(s) == IF s # <<>> /\ IsSpace(Head(s)) THEN lstrip(Tail(s)) ELSE s

RECURSIVE rstrip(_)
rstrip(s) ==
    IF s # <<>> /\ IsSpace(s[Len(s)]) THEN rstrip(SubSeq(s, 1, Len(s) - 1)) ELSE s

\* str.strip()
strip(s) == rstrip(lstrip(s))

RECURSIVE SquashRuns(_, _, _)
\* re.sub(cls+, ' ', s) for a character class given as the set of its members in s
SquashRuns(s, inClass, prevIn) ==
    IF s = <<>> THEN <<>>
    ELSE IF Head(s) \in inClass
         THEN (IF prevIn THEN <<>> ELSE <<" ">>) \o SquashRuns(Tail(s), inClass, TRUE)
         ELSE <<Head(s)>> \o SquashRuns(Tail(s), inClass, FALSE)

CharsIn(s) == {s[i] : i \in 1..Len(s)}

\* characters kept by the class [^\w\s\.\,\;\:\!\?\-\(\)\[\]\"\'\/\n]
Allowed(c) ==
    \/ WordChar(c)
    \/ IsSpace(c)
    \/ c \in {".", ",", ";", ":", "!", "?", "-", "(", ")", "[", "]", "\"", "'", "/"}

\* DocumentPreprocessor.clean_text
clean_text(text) ==
    IF text = <<>> THEN <<>>
    ELSE
        \* \s+ -> ' '   (afterwards no newline is left, so \n\s*\n never matches)
        LET t1 == SquashRuns(text, {c \in CharsIn(text) : IsSpace(c)}, FALSE)
        \* disallowed characters -> ' '
            t2 == [i \in 1..Len(t1) |-> IF Allowed(t1[i]) THEN t1[i] ELSE " "]
        \* ' +' -> ' '
            t3 == SquashRuns(t2, {" "}, FALSE)
        IN  strip(t3)

RECURSIVE findall_words(_, _)
\* re.findall(r'\w+', s): the maximal runs of word characters (cur is the open run)
findall_words(s, cur) ==
    IF s = <<>> THEN (IF cur = <<>> THEN <<>> ELSE <<cur>>)
    ELSE IF WordChar(Head(s)) THEN findall_words(Tail(s), Append(cur, Head(s)))
    ELSE (IF cur = <<>> THEN <<>> ELSE <<cur>>) \o findall_words(Tail(s), <<>>)

\* ---- embedding service -------------------------------------------------
EMBEDDING_DIMENSION == 384

\* int(hashlib.md5(word.encode()).hexdigest(), 16) % 384 for the words of the model
Md5Mod384 ==
    (<<"i", "c", "e">> :> 58) @@ (<<"k", "n", "e", "e">> :> 54) @@
    (<<"o", "k">> :> 342) @@ (<<"r", "e", "s", "t">> :> 252) @@
    (<<"t", "h", "e">> :> 215) @@ (<<"t", "e", "s", "t">> :> 214)

\* A list of floats is kept sparse: len is its length, counts maps the
\* positions (0-based) of its non-zero entries to their numerators and total
\* is the common denominator.  EmptyList is [], NoEmbedding is None.
EmptyList == [kind |-> "list", len |-> 0, counts |-> <<>>, total |-> 1]

NoEmbedding == [kind |-> "None", len |-> 0, counts |-> <<>>, total |-> 1]

\* truth value of an embedding: None and [] are false
Truthy(e) == e.len > 0

\* an embedding whose counts are not divided by their total
simple_text_embedding_counts(text) ==
    [kind |-> "list", len |-> EMBEDDING_DIMENSION,
     counts |-> [b \in {Md5Mod384[w] : w \in {findall_words(lower(text), <<>>)[i] :
                           i \in 1..Len(findall_words(lower(text), <<>>))}} |-> 1],
     total |-> 1]

\* EmbeddingService._simple_text_embedding
simple_text_embedding(text) ==
    LET words   == findall_words(lower(text), <<>>)
        buckets == {Md5Mod384[words[i]] : i \in 1..Len(words)}
        counts  == [b \in buckets |->
                       Cardinality({i \in 1..Len(words) : Md5Mod384[words[i]] = b})]
    IN  [kind |-> "list", len |-> EMBEDDING_DIMENSION, counts |-> counts,
         total |-> IF Len(words) > 0 THEN Len(words) ELSE 1]

\* EmbeddingService.embed_text; fails is an exception inside the try block
embed_text(text, fails) ==
    IF text = <<>> \/ strip(text) = <<>> THEN EmptyList
    ELSE IF fails THEN EmptyList
    ELSE simple_text_embedding(strip(text))

\* EmbeddingService.embed_documents
embed_documents(documents, fails) ==
    IF documents = <<>> THEN <<>>
    ELSE LET valid == SelectSeq(documents,
                          LAMBDA d : d.content # <<>> /\ strip(d.content) # <<>>)
         IN  [i \in 1..Len(valid) |->
                 [valid[i] EXCEPT !.embedding = embed_text(valid[i].content, fails)]]

\* ---- documents ---------------------------------------------------------
\* haystack Document(content=..., meta=...): the id is a hash of the content
\* and of the meta the document is constructed with (a hash is modelled by
\* the hashed value itself); later changes of meta or embedding keep the id
Document(content, meta) ==
    [id |-> <<content, meta>>, content |-> content, meta |-> meta,
     embedding |-> NoEmbedding]

\* dict.update
update(meta, new) == new @@ meta

\* LocalDocumentStore._generate_doc_id: hashes of the content and of str(meta)
generate_doc_id(doc) == <<doc.content, doc.meta>>

\* ---- PDF loader --------------------------------------------------------
\* PDFLoader.load_pdf; parse_fails is PyPDF2 failing on the file
load_pdf(dir, file_path, parse_fails) ==
    IF file_path \notin DOMAIN dir THEN [raised |-> TRUE, documents |-> <<>>]
    ELSE IF parse_fails THEN [raised |-> TRUE, documents |-> <<>>]
    ELSE LET pages == dir[file_path]
             kept  == SelectSeq([i \in 1..Len(pages) |-> i],
                                LAMBDA i : strip(pages[i]) # <<>>)
         IN  [raised    |-> FALSE,
              documents |-> [k \in 1..Len(kept) |->
                  Document(strip(pages[kept[k]]),
                           [source |-> file_path, page_number |-> kept[k],
                            file_name |-> file_path, total_pages |-> Len(pages)])]]

\* the files the data directory may hold, in glob order
FileNames == <<"a.pdf", "b.pdf">>

RECURSIVE load_files(_, _, _)
\* the loop of load_all_pdfs: a file whose load_pdf raises is skipped
load_files(dir, files, parse_fails) ==
    IF files = <<>> THEN <<>>
    ELSE LET r == load_pdf(dir, Head(files), parse_fails) IN
         (IF r.raised THEN <<>> ELSE r.documents)
            \o load_files(dir, Tail(files), parse_fails)

\* PDFLoader.load_all_pdfs
load_all_pdfs(dir, parse_fails) ==
    load_files(dir, SelectSeq(FileNames, LAMBDA f : f \in DOMAIN dir), parse_fails)

\* ---- preprocessor ------------------------------------------------------
CHUNK_SIZE == 1000

\* DocumentSplitter.run with split_by = "sentence" and split_length =
\* CHUNK_SIZE: a page of at most CHUNK_SIZE sentences is one chunk, built as
\* a new Document from the page's content and meta plus the split position
split(documents) ==
    [i \in 1..Len(documents) |->
        Document(documents[i].content,
                 update(documents[i].meta, [split_id |-> 0]))]

\* step 1 of preprocess_documents: a new Document with the cleaned content
\* for every document whose cleaned content is not empty
clean_documents(documents) ==
    SelectSeq([i \in 1..Len(documents) |->
                  Document(clean_text(documents[i].content), documents[i].meta)],
              LAMBDA d : d.content # <<>>)

\* step 4 of preprocess_documents: the chunk metadata added to each chunk
add_chunk_metadata(chunked_documents, now) ==
    [i \in 1..Len(chunked_documents) |->
        [chunked_documents[i] EXCEPT !.meta =
            update(@, [chunk_id |-> i - 1,
                       chunk_size |-> Len(chunked_documents[i].content),
                       preprocessing_timestamp |-> now])]]

\* DocumentPreprocessor.preprocess_documents, without its failure path;
\* now is the value of _get_timestamp().  With nothing left after cleaning
\* the early return gives [], as do the later steps on an empty list.
preprocess_documents(documents, now) ==
    IF documents = <<>> THEN <<>>
    ELSE add_chunk_metadata(split(clean_documents(documents)), now)

\* DocumentPreprocessor.validate_documents: the documents with at least 10
\* characters after strip() and at least 5 word characters.  No code of the
\* repository calls it.
validate_documents(documents) ==
    SelectSeq(documents,
              LAMBDA d : /\ Len(strip(d.content)) >= 10
                         /\ Len(SelectSeq(d.content, WordChar)) >= 5)

\* ---- local document store ----------------------------------------------
RemoveId(seq, id) == SelectSeq(seq, LAMBDA d : d.id # id)

HasId(seq, id) == \E i \in 1..Len(seq) : seq[i].id = id

RECURSIVE vector_store_write(_, _, _)
\* InMemoryDocumentStore.write_documents: only the enum value
\* DuplicatePolicy.OVERWRITE/SKIP/FAIL is recognised; the strings passed by
\* write_documents ("overwrite", "duplicate_skip") fall through to the
\* replacing write, the default policy ("NONE") fails on a stored id
vector_store_write(mir, documents, policy) ==
    IF documents = <<>> THEN [raised |-> FALSE, mir |-> mir]
    ELSE LET d == Head(documents) IN
         IF policy = "NONE" /\ HasId(mir, d.id)
         THEN [raised |-> TRUE, mir |-> mir]
         ELSE vector_store_write(Append(RemoveId(mir, d.id), d), Tail(documents), policy)

\* a row id that ignores the document's own id
RowId_generated(doc) == generate_doc_id(doc)

\* the id of the row written for a document (local_document_store.py 103)
RowId(doc) == IF "id" \in DOMAIN doc THEN doc.id ELSE generate_doc_id(doc)

RECURSIVE sqlite_write(_, _, _)
\* the INSERT OR REPLACE / INSERT OR IGNORE loop of write_documents
sqlite_write(tbl, documents, policy) ==
    IF documents = <<>> THEN tbl
    ELSE LET d   == Head(documents)
             row == [id |-> RowId(d), content |-> d.content, meta |-> d.meta]
         IN  IF policy = "overwrite"
             THEN sqlite_write(Append(RemoveId(tbl, row.id), row), Tail(documents), policy)
             ELSE IF HasId(tbl, row.id)
             THEN sqlite_write(tbl, Tail(documents), policy)
             ELSE sqlite_write(Append(tbl, row), Tail(documents), policy)

\* a write whose rows are replaced under either policy
write_documents_replacing(tbl, mir, documents, policy, F) ==
    IF documents = <<>> \/ "vector_write" \in F \/ "sqlite_write" \in F
    THEN [raised |-> documents # <<>>, tbl |-> tbl, mir |-> mir]
    ELSE [raised |-> FALSE, tbl |-> sqlite_write(tbl, documents, "overwrite"),
          mir |-> vector_store_write(mir, documents, policy).mir]

\* a write whose failing SQLite loop keeps the row it inserted first
write_documents_uncommitted(tbl, mir, documents, policy, F) ==
    IF documents = <<>> THEN [raised |-> FALSE, tbl |-> tbl, mir |-> mir]
    ELSE IF "vector_write" \in F THEN [raised |-> TRUE, tbl |-> tbl, mir |-> mir]
    ELSE IF "sqlite_write" \in F
    THEN [raised |-> TRUE, tbl |-> sqlite_write(tbl, <<Head(documents)>>, policy),
          mir |-> vector_store_write(mir, documents, policy).mir]
    ELSE [raised |-> FALSE, tbl |-> sqlite_write(tbl, documents, policy),
          mir |-> vector_store_write(mir, documents, policy).mir]

\* LocalDocumentStore.write_documents; F is the set of failing components
write_documents(tbl, mir, documents, policy, F) ==
    IF documents = <<>> THEN [raised |-> FALSE, tbl |-> tbl, mir |-> mir]
    ELSE IF "vector_write" \in F THEN [raised |-> TRUE, tbl |-> tbl, mir |-> mir]
    ELSE LET v == vector_store_write(mir, documents, policy) IN
         IF v.raised THEN [raised |-> TRUE, tbl |-> tbl, mir |-> v.mir]
         ELSE IF "sqlite_write" \in F THEN [raised |-> TRUE, tbl |-> tbl, mir |-> v.mir]
         ELSE [raised |-> FALSE, tbl |-> sqlite_write(tbl, documents, policy),
               mir |-> v.mir]

\* LocalDocumentStore._get_documents_from_sqlite
get_documents_from_sqlite(tbl, F) ==
    IF "sqlite_read" \in F THEN <<>>
    ELSE [i \in 1..Len(tbl) |->
            [id |-> tbl[i].id, content |-> tbl[i].content, meta |-> tbl[i].meta,
             embedding |-> NoEmbedding]]

\* LocalDocumentStore.get_all_documents
get_all_documents(tbl, mir, F) ==
    IF "vector_read" \in F THEN <<>>
    ELSE IF mir # <<>> THEN mir
    ELSE get_documents_from_sqlite(tbl, F)

\* a deletion that removes the rows and leaves the in-memory store alone
delete_documents_rows_only(tbl, mir, document_ids, F) ==
    IF document_ids = {} THEN [raised |-> FALSE, tbl |-> tbl, mir |-> mir]
    ELSE IF "vector_delete" \in F \/ "sqlite_delete" \in F
    THEN [raised |-> TRUE, tbl |-> tbl, mir |-> mir]
    ELSE [raised |-> FALSE,
          tbl |-> SelectSeq(tbl, LAMBDA d : d.id \notin document_ids),
          mir |-> mir]

\* LocalDocumentStore.delete_documents
delete_documents(tbl, mir, document_ids, F) ==
    IF document_ids = {} THEN [raised |-> FALSE, tbl |-> tbl, mir |-> mir]
    ELSE IF "vector_delete" \in F THEN [raised |-> TRUE, tbl |-> tbl, mir |-> mir]
    ELSE LET mir1 == SelectSeq(mir, LAMBDA d : d.id \notin document_ids) IN
         IF "sqlite_delete" \in F THEN [raised |-> TRUE, tbl |-> tbl, mir |-> mir1]
         ELSE [raised |-> FALSE,
               tbl |-> SelectSeq(tbl, LAMBDA d : d.id \notin document_ids),
               mir |-> mir1]

\* the documents read from SQLite, each with the embedding of its content
with_embeddings(sqlite_docs, fails) ==
    [i \in 1..Len(sqlite_docs) |->
        [sqlite_docs[i] EXCEPT !.embedding = embed_text(sqlite_docs[i].content, fails)]]

\* a synchronisation that copies the rows without embedding them
sync_stores_unembedded(tbl, mir, F) ==
    vector_store_write(mir, get_documents_from_sqlite(tbl, F), "NONE").mir

\* LocalDocumentStore.sync_stores: the mirror after it.  The library write is
\* called with its default policy, which raises on an id the mirror holds;
\* the exception is logged and what was written before it stays.
sync_stores(tbl, mir, F) ==
    vector_store_write(mir,
                       with_embeddings(get_documents_from_sqlite(tbl, F), "embed" \in F),
                       "NONE").mir

\* LocalDocumentStore.count_documents
count_documents(tbl, F) == IF "sqlite_count" \in F THEN 0 ELSE Len(tbl)

\* LocalDocumentStore.get_store_info
get_store_info(tbl, mir, F) ==
    IF "vector_read" \in F THEN [error |-> "store info"]
    ELSE [total_documents |-> count_documents(tbl, F),
          vector_store_documents |-> Len(mir)]

\* ---- indexing pipeline -------------------------------------------------
\* Every pipeline operation yields the store after it (tbl, mir), whether it
\* raised, the value it returned (ret) and the component calls it made.
Outcome(tbl, mir, raised, ret, calls) ==
    [tbl |-> tbl, mir |-> mir, raised |-> raised, ret |-> ret, calls |-> calls]

NoRet == [raised |-> TRUE]

\* try: o  except Exception: return ret
Catch(o, ret) == IF o.raised THEN [o EXCEPT !.raised = FALSE, !.ret = ret] ELSE o

\* the end of the try block of IndexingPipeline.index_documents: the result
\* after write_documents (w) ran on the embedded chunks
index_written(documents, embedded_docs, w, F) ==
    IF w.raised
    THEN Outcome(w.tbl, w.mir, TRUE, NoRet, {"preprocess", "embed", "write_documents"})
    ELSE Outcome(w.tbl, w.mir, FALSE,
                 [success |-> TRUE, message |-> "Successfully indexed",
                  documents_processed |-> Len(documents),
                  chunks_created |-> Len(embedded_docs),
                  chunks_with_embeddings |->
                      Len(SelectSeq(embedded_docs, LAMBDA d : Truthy(d.embedding))),
                  store_info |-> get_store_info(w.tbl, w.mir, F)],
                 {"preprocess", "embed", "write_documents"})

\* step 3 of IndexingPipeline.index_documents, on the embedded chunks
index_embedded(tbl, mir, documents, preprocessed_docs, embedded_docs, F) ==
    IF embedded_docs = <<>>
    THEN Outcome(tbl, mir, FALSE,
                 [success |-> FALSE, message |-> "Failed to generate embeddings",
                  documents_processed |-> Len(documents),
                  chunks_created |-> Len(preprocessed_docs)],
                 {"preprocess", "embed"})
    ELSE index_written(documents, embedded_docs,
                       write_documents(tbl, mir, embedded_docs, "overwrite", F), F)

\* step 2 of IndexingPipeline.index_documents, on the preprocessed chunks
index_preprocessed(tbl, mir, documents, preprocessed_docs, F) ==
    IF preprocessed_docs = <<>>
    THEN Outcome(tbl, mir, FALSE,
                 [success |-> FALSE,
                  message |-> "All documents filtered out during preprocessing",
                  documents_processed |-> Len(documents), chunks_created |-> 0],
                 {"preprocess"})
    ELSE index_embedded(tbl, mir, documents, preprocessed_docs,
                        embed_documents(preprocessed_docs, "embed" \in F), F)

\* the try block of IndexingPipeline.index_documents (lines 112-156)
pipeline_index_documents_try(tbl, mir, documents, now, F) ==
    IF "preprocess" \in F
    THEN Outcome(tbl, mir, TRUE, NoRet, {"preprocess"})
    ELSE index_preprocessed(tbl, mir, documents,
                            preprocess_documents(documents, now), F)

\* IndexingPipeline.index_documents
pipeline_index_documents(tbl, mir, documents, now, F) ==
    IF documents = <<>>
    THEN Outcome(tbl, mir, FALSE,
                 [success |-> FALSE, message |-> "No documents provided",
                  documents_processed |-> 0, chunks_created |-> 0], {})
    ELSE Catch(pipeline_index_documents_try(tbl, mir, documents, now, F),
               [success |-> FALSE, error |-> "indexing failed",
                documents_processed |-> Len(documents), chunks_created |-> 0])

\* the outcome o, with more component calls recorded
AlsoCalled(o, calls) == [o EXCEPT !.calls = @ \cup calls]

\* index_documents_from_directory once load_all_pdfs returned documents
index_loaded(tbl, mir, documents, now, F) ==
    IF documents = <<>>
    THEN Outcome(tbl, mir, FALSE,
                 [success |-> FALSE, message |-> "No documents found to index",
                  documents_processed |-> 0, chunks_created |-> 0],
                 {"load_all_pdfs"})
    ELSE AlsoCalled(pipeline_index_documents(tbl, mir, documents, now, F),
                    {"load_all_pdfs"})

\* the try block of index_documents_from_directory; listing the data
\* directory (pdf_dir) is the one step of load_all_pdfs that is not guarded
index_documents_from_directory_try(tbl, mir, dir, now, F) ==
    IF "pdf_dir" \in F
    THEN Outcome(tbl, mir, TRUE, NoRet, {"load_all_pdfs"})
    ELSE index_loaded(tbl, mir, load_all_pdfs(dir, "pdf_parse" \in F), now, F)

\* IndexingPipeline.index_documents_from_directory
index_documents_from_directory(tbl, mir, dir, now, F) ==
    Catch(index_documents_from_directory_try(tbl, mir, dir, now, F),
          [success |-> FALSE, error |-> "indexing from directory failed",
           documents_processed |-> 0, chunks_created |-> 0])

\* result["file_path"] = str(pdf_path)
WithFilePath(o, pdf_path) == [o EXCEPT !.ret = update(@, [file_path |-> pdf_path])]

\* index_single_pdf once load_pdf ran (l is what it did)
index_loaded_pdf(tbl, mir, pdf_path, l, now, F) ==
    IF l.raised
    THEN Outcome(tbl, mir, TRUE, NoRet, {"load_pdf"})
    ELSE IF l.documents = <<>>
    THEN Outcome(tbl, mir, FALSE,
                 [success |-> FALSE, message |-> "No content extracted from PDF",
                  file_path |-> pdf_path], {"load_pdf"})
    ELSE AlsoCalled(WithFilePath(pipeline_index_documents(tbl, mir, l.documents, now, F),
                                 pdf_path),
                    {"load_pdf"})

\* the try block of IndexingPipeline.index_single_pdf
index_single_pdf_try(tbl, mir, dir, pdf_path, now, F) ==
    index_loaded_pdf(tbl, mir, pdf_path, load_pdf(dir, pdf_path, "pdf_parse" \in F),
                     now, F)

\* IndexingPipeline.index_single_pdf
index_single_pdf(tbl, mir, dir, pdf_path, now, F) ==
    Catch(index_single_pdf_try(tbl, mir, dir, pdf_path, now, F),
          [success |-> FALSE, error |-> "cannot index the PDF", file_path |-> pdf_path])

\* the end of reindex_all_documents: a successful result is extended
reindexed(o, current_count) ==
    IF o.ret.success
    THEN [o EXCEPT !.ret = update(@, [previous_document_count |-> current_count,
                                      reindexing |-> TRUE])]
    ELSE o

\* a reindexing that clears the store first
reindex_all_documents_clearing(tbl, mir, dir, now, F) ==
    reindexed(index_documents_from_directory(<<>>, <<>>, dir, now, F),
              count_documents(tbl, F))

\* IndexingPipeline.reindex_all_documents: the clearing call is commented out
reindex_all_documents(tbl, mir, dir, now, F) ==
    reindexed(index_documents_from_directory(tbl, mir, dir, now, F),
              count_documents(tbl, F))

\* IndexingPipeline.validate_index
pipeline_validate_index(tbl, mir, F) ==
    LET all_docs == get_all_documents(tbl, mir, F)
        with     == Len(SelectSeq(all_docs, LAMBDA d : Truthy(d.embedding)))
    IN  Outcome(tbl, mir, FALSE,
                [total_documents |-> Len(all_docs),
                 documents_with_embeddings |-> with,
                 documents_without_embeddings |-> Len(all_docs) - with,
                 index_valid |-> (Len(all_docs) - with = 0 /\ Len(all_docs) > 0)],
                {"get_all_documents"})

\* ---- similarity --------------------------------------------------------
RECURSIVE SumOver(_, _)
SumOver(S, f) ==
    IF S = {} THEN 0
    ELSE LET x == CHOOSE x \in S : TRUE IN f[x] + SumOver(S \ {x}, f)

\* numerator of the dot product of two embeddings (denominator a.total * b.total)
DotNum(a, b) ==
    LET common == DOMAIN a.counts \cap DOMAIN b.counts IN
    SumOver(common, [x \in common |-> a.counts[x] * b.counts[x]])

\* numerator of the squared Euclidean norm (denominator a.total ^ 2)
Norm2Num(a) == DotNum(a, a)

\* the indices 1..n ordered by the strict total order before (a Boolean
\* function of two indices)
OrderedIndices(n, before) ==
    [k \in 1..n |->
        CHOOSE i \in 1..n : Cardinality({j \in 1..n : before[j, i]}) = k - 1]

FirstK(seq, k) == SubSeq(seq, 1, IF k < Len(seq) THEN k ELSE Len(seq))

\* EmbeddingService.similarity_search: indices (from 1) by cosine similarity.
\* np.argsort sorts ascending and keeps equal keys in index order (NaN, the
\* similarity of a zero vector, sorts last); [::-1] reverses; [:top_k] cuts.
similarity_search(query_embedding, document_embeddings, top_k) ==
    IF ~Truthy(query_embedding) \/ document_embeddings = <<>> THEN <<>>
    ELSE
    LET n      == Len(document_embeddings)
        q      == query_embedding
        e(i)   == document_embeddings[i]
        nan(i) == Norm2Num(e(i)) = 0 \/ Norm2Num(q) = 0
        \* cos(i) < cos(j), both defined
        less(i, j) == DotNum(e(i), q) * DotNum(e(i), q) * Norm2Num(e(j))
                        < DotNum(e(j), q) * DotNum(e(j), q) * Norm2Num(e(i))
        keyLess(i, j) == IF nan(i) THEN FALSE ELSE IF nan(j) THEN TRUE ELSE less(i, j)
        before(i, j)  == keyLess(i, j) \/ (~keyLess(j, i) /\ i < j)
        ascending     == OrderedIndices(n, [i \in 1..n, j \in 1..n |-> before(i, j)])
        descending    == [k \in 1..n |-> ascending[n + 1 - k]]
    IN  FirstK(descending, top_k)

\* InMemoryEmbeddingRetriever.run on the vector store: documents whose
\* embedding is None are skipped, the others are scored by dot product and
\* sorted by descending score (sorted() keeps equal scores in store order);
\* an embedding of another length than the query's makes numpy raise
retriever_run(mir, query_embedding, top_k, fails) ==
    LET scored == SelectSeq(mir, LAMBDA d : d.embedding.kind # "None")
        n      == Len(scored)
        q      == query_embedding
        s(i)   == scored[i].embedding
        before(i, j) ==
            \/ DotNum(s(i), q) * s(j).total > DotNum(s(j), q) * s(i).total
            \/ (DotNum(s(i), q) * s(j).total = DotNum(s(j), q) * s(i).total /\ i < j)
        order  == OrderedIndices(n, [i \in 1..n, j \in 1..n |-> before(i, j)])
    IN  IF fails \/ \E i \in 1..n : s(i).len # q.len
        THEN [raised |-> TRUE, documents |-> <<>>]
        ELSE [raised |-> FALSE,
              documents |-> FirstK([k \in 1..n |-> scored[order[k]]], top_k)]

\* ---- query pipeline ----------------------------------------------------
TOP_K == 5

\* QueryPipeline._manual_similarity_search
manual_similarity_search(tbl, mir, query_embedding, top_k, F) ==
    LET all_docs == get_all_documents(tbl, mir, F)
        docs_with_embeddings == SelectSeq(all_docs, LAMBDA d : Truthy(d.embedding))
        document_embeddings  == [i \in 1..Len(docs_with_embeddings) |->
                                    docs_with_embeddings[i].embedding]
        similar_indices == similarity_search(query_embedding, document_embeddings, top_k)
    IN  IF all_docs = <<>> \/ docs_with_embeddings = <<>> THEN <<>>
        ELSE [k \in 1..Len(similar_indices) |-> docs_with_embeddings[similar_indices[k]]]

\* the fallback of retrieve_documents: what the manual search found;
\* raised tells that the retriever was run and raised
manual_fallback(found, raised) ==
    [documents |-> found,
     calls |-> {"embed_text", "manual_similarity_search"}
        \cup (IF raised THEN {"retriever_run", "retriever_raised"} ELSE {})
        \cup (IF found = <<>> THEN {"manual_found_nothing"} ELSE {})]

\* retrieve_documents once the retriever ran (r is what it did)
retriever_or_fallback(tbl, mir, query_embedding, top_k, r, F) ==
    IF ~r.raised
    THEN [documents |-> r.documents, calls |-> {"embed_text", "retriever_run"}]
    ELSE manual_fallback(manual_similarity_search(tbl, mir, query_embedding, top_k, F),
                         TRUE)

\* retrieve_documents once the query is embedded
retrieve_embedded(tbl, mir, retr, query_embedding, top_k, F) ==
    IF ~Truthy(query_embedding)
    THEN [documents |-> <<>>, calls |-> {"embed_text", "embedding_empty"}]
    ELSE IF retr
    THEN retriever_or_fallback(tbl, mir, query_embedding, top_k,
             retriever_run(mir, query_embedding, top_k, "retriever" \in F), F)
    ELSE manual_fallback(manual_similarity_search(tbl, mir, query_embedding, top_k, F),
                         FALSE)

\* QueryPipeline.retrieve_documents: the documents and what happened on the way
retrieve_documents(tbl, mir, retr, query, top_k0, F) ==
    retrieve_embedded(tbl, mir, retr, embed_text(query, "embed" \in F),
                      IF top_k0 = 0 THEN TOP_K ELSE top_k0, F)

\* GenerativeService.generate_response: failures of the model call are
\* caught inside and turned into an answer text
generate_response(query, context_documents, F) ==
    IF query = <<>> \/ strip(query) = <<>>
    THEN "I need a question to answer. Please provide a query."
    ELSE IF "generate_raises" \in F
    THEN "I encountered an error while generating a response"
    ELSE IF "generate_no_text" \in F
    THEN "I apologize, but I couldn't generate a response. Please try again."
    ELSE "generated answer"

\* GenerativeService.generate_summary
generate_summary(documents, F) ==
    IF documents = <<>> THEN "No documents provided for summary."
    ELSE IF "generate_raises" \in F THEN "Error generating summary"
    ELSE IF "generate_no_text" \in F THEN "Could not generate summary."
    ELSE "generated summary"

\* the keys _extract_source_info copies from the meta
SourceKeys == {"source", "file_name", "page_number", "chunk_id"}

\* QueryPipeline._extract_source_info
extract_source_info(documents) ==
    [i \in 1..Len(documents) |->
        update([k \in (SourceKeys \cap DOMAIN documents[i].meta) |-> documents[i].meta[k]],
               [rank |-> i, content_preview |-> documents[i].content,
                content_length |-> Len(documents[i].content)])]

NoInformationAnswer == "I couldn't find any relevant information to answer your question."

NotReadyAnswer == "The RAG service is not ready. Please ensure documents are indexed first."

\* steps 2 and 3 of QueryPipeline.query on the retrieved documents (r)
answer_retrieved(tbl, mir, question, r, F) ==
    Outcome(tbl, mir, FALSE,
            [question |-> question,
             answer |-> generate_response(question, r.documents, F),
             sources |-> extract_source_info(r.documents),
             retrieved_documents |-> Len(r.documents), success |-> TRUE,
             model_info |-> "gemini"],
            r.calls \cup {"generate_response"})

\* QueryPipeline.query after step 1 (r is what retrieve_documents did)
query_retrieved(tbl, mir, question, r, F) ==
    IF r.documents = <<>>
    THEN Outcome(tbl, mir, FALSE,
                 [question |-> question, answer |-> NoInformationAnswer,
                  sources |-> <<>>, retrieved_documents |-> 0, success |-> FALSE],
                 r.calls)
    ELSE answer_retrieved(tbl, mir, question, r, F)

\* a query that generates an answer whatever was retrieved
pipeline_query_try_unguarded(tbl, mir, retr, question, top_k, F) ==
    answer_retrieved(tbl, mir, question,
                     retrieve_documents(tbl, mir, retr, question, top_k, F), F)

\* the try block of QueryPipeline.query (lines 84-113)
pipeline_query_try(tbl, mir, retr, question, top_k, F) ==
    query_retrieved(tbl, mir, question,
                    retrieve_documents(tbl, mir, retr, question, top_k, F), F)

\* QueryPipeline.query
pipeline_query(tbl, mir, retr, question, top_k, F) ==
    IF question = <<>> \/ strip(question) = <<>>
    THEN Outcome(tbl, mir, FALSE,
                 [question |-> question, answer |-> "Please provide a valid question.",
                  sources |-> <<>>, retrieved_documents |-> 0, success |-> FALSE], {})
    ELSE Catch(pipeline_query_try(tbl, mir, retr, question, top_k, F),
               [question |-> question, answer |-> "I encountered an error",
                sources |-> <<>>, retrieved_documents |-> 0, success |-> FALSE,
                error |-> "query failed"])

\* the result list of search_documents for the retrieved documents (r)
search_results(tbl, mir, r) ==
    Outcome(tbl, mir, FALSE,
            [value |-> [i \in 1..Len(r.documents) |->
                           [rank |-> i, content |-> r.documents[i].content,
                            content_length |-> Len(r.documents[i].content),
                            metadata |-> r.documents[i].meta]]],
            r.calls)

\* QueryPipeline.search_documents
pipeline_search_documents(tbl, mir, retr, query, top_k, F) ==
    search_results(tbl, mir, retrieve_documents(tbl, mir, retr, query, top_k, F))

\* QueryPipeline.get_document_summary without a filter
pipeline_get_document_summary(tbl, mir, F) ==
    LET documents == get_all_documents(tbl, mir, F) IN
    IF documents = <<>>
    THEN Outcome(tbl, mir, FALSE,
                 [value |-> "No documents available for summarization."],
                 {"get_all_documents"})
    ELSE Outcome(tbl, mir, FALSE,
                 [value |-> generate_summary(FirstK(documents, 10), F)],
                 {"get_all_documents", "generate_summary"})

\* ---- RAG service -------------------------------------------------------
\* RAGService.is_ready (the service is constructed: _initialized is True)
is_ready(tbl, F) == count_documents(tbl, F) > 0

\* the try block of RAGService.index_documents
index_documents_try(tbl, mir, dir, force_reindex, now, F) ==
    LET current_count == count_documents(tbl, F) IN
    IF current_count > 0 /\ ~force_reindex
    THEN Outcome(tbl, mir, FALSE,
                 [success |-> TRUE, message |-> "Documents already indexed",
                  documents_processed |-> 0, existing_documents |-> current_count,
                  skipped_indexing |-> TRUE], {})
    ELSE IF force_reindex THEN reindex_all_documents(tbl, mir, dir, now, F)
    ELSE index_documents_from_directory(tbl, mir, dir, now, F)

\* RAGService.index_documents
index_documents(tbl, mir, dir, force_reindex, now, F) ==
    Catch(index_documents_try(tbl, mir, dir, force_reindex, now, F),
          [success |-> FALSE, error |-> "indexing failed", documents_processed |-> 0])

\* RAGService.add_pdf_document
add_pdf_document(tbl, mir, dir, pdf_path, now, F) ==
    Catch(index_single_pdf(tbl, mir, dir, pdf_path, now, F),
          [success |-> FALSE, error |-> "cannot add the PDF", file_path |-> pdf_path])

\* a query that skips the readiness check
query_unchecked(tbl, mir, retr, question, top_k, F) ==
    pipeline_query(tbl, mir, retr, question, top_k, F)

\* RAGService.query
query(tbl, mir, retr, question, top_k, F) ==
    IF ~is_ready(tbl, F)
    THEN Outcome(tbl, mir, FALSE,
                 [question |-> question, answer |-> NotReadyAnswer, sources |-> <<>>,
                  success |-> FALSE, error |-> "Service not ready"], {})
    ELSE AlsoCalled(pipeline_query(tbl, mir, retr, question, top_k, F),
                    {"query_pipeline"})

\* RAGService.search_documents
search_documents(tbl, mir, retr, q, top_k, F) ==
    IF ~is_ready(tbl, F) THEN Outcome(tbl, mir, FALSE, [value |-> <<>>], {})
    ELSE AlsoCalled(pipeline_search_documents(tbl, mir, retr, q, top_k, F),
                    {"query_pipeline"})

\* RAGService.get_document_summary
get_document_summary(tbl, mir, F) ==
    IF ~is_ready(tbl, F)
    THEN Outcome(tbl, mir, FALSE,
                 [value |-> "No documents available for summarization. Please index documents first."],
                 {})
    ELSE AlsoCalled(pipeline_get_document_summary(tbl, mir, F), {"query_pipeline"})

\* RAGService.validate_index
validate_index(tbl, mir, F) == pipeline_validate_index(tbl, mir, F)

\* a clearing that does not return early on an empty table
clear_index_try_always(tbl, mir, F) ==
    LET current_count == count_documents(tbl, F)
        all_docs == get_all_documents(tbl, mir, F)
        doc_ids  == {all_docs[i].id : i \in 1..Len(all_docs)}
        d == delete_documents(tbl, mir, doc_ids, F)
        remaining_count == count_documents(d.tbl, F)
        calls == {"get_all_documents"} \cup
                 (IF doc_ids # {} THEN {"delete_documents"} ELSE {})
    IN  IF d.raised THEN Outcome(d.tbl, d.mir, TRUE, NoRet, calls)
        ELSE Outcome(d.tbl, d.mir, FALSE,
                     [success |-> remaining_count = 0, message |-> "Cleared documents",
                      documents_cleared |-> current_count - remaining_count,
                      remaining_documents |-> remaining_count], calls)

\* the try block of RAGService.clear_index
clear_index_try(tbl, mir, F) ==
    LET current_count == count_documents(tbl, F)
        all_docs == get_all_documents(tbl, mir, F)
        doc_ids  == {all_docs[i].id : i \in 1..Len(all_docs)}
        d == delete_documents(tbl, mir, doc_ids, F)
        remaining_count == count_documents(d.tbl, F)
        calls == {"get_all_documents"} \cup
                 (IF doc_ids # {} THEN {"delete_documents"} ELSE {})
    IN  IF current_count = 0
        THEN Outcome(tbl, mir, FALSE,
                     [success |-> TRUE, message |-> "Index was already empty",
                      documents_cleared |-> 0], {})
        ELSE IF d.raised THEN Outcome(d.tbl, d.mir, TRUE, NoRet, calls)
        ELSE Outcome(d.tbl, d.mir, FALSE,
                     [success |-> remaining_count = 0, message |-> "Cleared documents",
                      documents_cleared |-> current_count - remaining_count,
                      remaining_documents |-> remaining_count], calls)

\* a clearing without its except clause
clear_index_uncaught(tbl, mir, F) == clear_index_try(tbl, mir, F)

\* RAGService.clear_index
clear_index(tbl, mir, F) ==
    Catch(clear_index_try(tbl, mir, F),
          [success |-> FALSE, error |-> "clearing failed", documents_cleared |-> 0])

\* RAGService.get_status
get_status(tbl, mir, F) ==
    Outcome(tbl, mir, FALSE,
            [service_initialized |-> TRUE, service_ready |-> is_ready(tbl, F),
             document_count |-> count_documents(tbl, F),
             store_info |-> get_store_info(tbl, mir, F)], {})

\* RAGService.health_check
health_check(tbl, mir, F) ==
    LET test_embedding == embed_text(<<"t", "e", "s", "t">>, "embed" \in F) IN
    Outcome(tbl, mir, FALSE,
            [overall_healthy |-> test_embedding.len > 0,
             components |->
                [service |-> [initialized |-> TRUE, ready |-> is_ready(tbl, F),
                              healthy |-> TRUE],
                 document_store |-> [accessible |-> TRUE,
                                     document_count |-> count_documents(tbl, F),
                                     healthy |-> TRUE],
                 embedding_service |-> [available |-> TRUE,
                                        healthy |-> test_embedding.len > 0],
                 generative_service |-> [available |-> TRUE, healthy |-> TRUE]]],
            {"embed_text"})

\* ---- the environment of the model --------------------------------------
\* bound on the indexing runs (clock ticks)
MaxClock == 2

\* the contents a PDF file may have: its page texts
PdfContents ==
    { <<CharsOf("Ice  &  rest"), CharsOf(" \n"), CharsOf("ok.")>>,
      <<CharsOf("##")>> }

\* the PDF file of the data directory, and a path that is never a file
DataFile == "a.pdf"

MissingFile == "b.pdf"

Paths == {DataFile, MissingFile}

Questions == {<<>>, CharsOf("knee rest"), CharsOf("ice")}

\* top_k arguments: 0 stands for the default None
TopKs == {0, 1}

\* the components that fail during one call: none, or one of those the call uses
Faults(components) == {{}} \cup {{c} : c \in components}

IndexFaults == {"sqlite_count", "pdf_dir", "pdf_parse", "preprocess", "embed",
                "vector_write", "sqlite_write"}

AddFaults == {"pdf_parse", "preprocess", "embed", "vector_write", "sqlite_write"}

QueryFaults == {"sqlite_count", "embed", "retriever", "vector_read",
                "generate_raises", "generate_no_text"}

SearchFaults == {"sqlite_count", "embed", "retriever", "vector_read"}

SummaryFaults == {"sqlite_count", "vector_read", "generate_raises", "generate_no_text"}

ClearFaults == {"sqlite_count", "vector_read", "sqlite_read", "vector_delete",
                "sqlite_delete"}

ValidateFaults == {"vector_read", "sqlite_read"}

StatusFaults == {"sqlite_count", "vector_read"}

HealthFaults == {"sqlite_count", "embed"}

\* the record kept of a RAGService call
Observation(op, o, force, repeat) ==
    [op |-> op, raised |-> o.raised, ret |-> o.ret, calls |-> o.calls,
     count_before |-> Len(table), mirror_before |-> Len(mirror),
     force |-> force, repeat |-> repeat]

NoOutcome == Outcome(<<>>, <<>>, FALSE, [value |-> "none"], {})

\* the last call was a directory indexing that ran and reported success
IndexedNow(r) ==
    /\ r.op = "index_documents"
    /\ ~r.raised
    /\ "success" \in DOMAIN r.ret
    /\ r.ret.success
    /\ "skipped_indexing" \notin DOMAIN r.ret

\* state after RAGService() on a fresh database
RagInit ==
    /\ table = <<>>
    /\ mirror = <<>>
    /\ retriever \in BOOLEAN
    /\ data_dir = [f \in {} |-> <<>>]
    /\ clock = 0
    /\ rag = Observation("init", NoOutcome, FALSE, FALSE)

Apply(op, o, force, repeat) ==
    /\ table' = o.tbl
    /\ mirror' = o.mir
    /\ rag' = Observation(op, o, force, repeat)
    /\ clock' = IF "preprocess" \in o.calls THEN clock + 1 ELSE clock
    /\ UNCHANGED <<retriever, data_dir>>

IndexDocuments ==
    /\ clock < MaxClock
    /\ \E force_reindex \in BOOLEAN, F \in Faults(IndexFaults) :
          Apply("index_documents",
                index_documents(table, mirror, data_dir, force_reindex, clock + 1, F),
                force_reindex, IndexedNow(rag))

AddPdfDocument ==
    /\ clock < MaxClock
    /\ \E pdf_path \in Paths, F \in Faults(AddFaults) :
          Apply("add_pdf_document",
                add_pdf_document(table, mirror, data_dir, pdf_path, clock + 1, F),
                FALSE, FALSE)

Query ==
    \E question \in Questions, top_k \in TopKs, F \in Faults(QueryFaults) :
        Apply("query", query(table, mirror, retriever, question, top_k, F), FALSE, FALSE)

SearchDocuments ==
    \E q \in Questions, top_k \in TopKs, F \in Faults(SearchFaults) :
        Apply("search_documents",
              search_documents(table, mirror, retriever, q, top_k, F), FALSE, FALSE)

GetDocumentSummary ==
    \E F \in Faults(SummaryFaults) :
        Apply("get_document_summary", get_document_summary(table, mirror, F),
              FALSE, FALSE)

ClearIndex ==
    \E F \in Faults(ClearFaults) :
        Apply("clear_index", clear_index(table, mirror, F), FALSE, FALSE)

ValidateIndex ==
    \E F \in Faults(ValidateFaults) :
        Apply("validate_index", validate_index(table, mirror, F), FALSE, FALSE)

GetStatus ==
    \E F \in Faults(StatusFaults) :
        Apply("get_status", get_status(table, mirror, F), FALSE, FALSE)

HealthCheck ==
    \E F \in Faults(HealthFaults) :
        Apply("health_check", health_check(table, mirror, F), FALSE, FALSE)

\* the process is restarted: RAGService() builds a new, empty vector store on
\* the same database, and QueryPipeline.__init__ synchronises it and builds
\* the retriever (which may fail, leaving None)
Restart ==
    \E F \in Faults({"sqlite_read"}), retr \in BOOLEAN :
        /\ mirror' = sync_stores(table, <<>>, F)
        /\ retriever' = retr
        /\ rag' = Observation("restart",
                              Outcome(table, <<>>, FALSE, [value |-> "none"],
                                      {"sync_stores"} \cup F),
                              FALSE, FALSE)
        /\ UNCHANGED <<table, data_dir, clock>>

\* a PDF file is copied into the data directory (or replaced there)
PutPdf ==
    \E f \in {DataFile}, pages \in PdfContents :
        /\ data_dir' = [g \in DOMAIN data_dir \cup {f} |->
                           IF g = f THEN pages ELSE data_dir[g]]
        /\ rag' = Observation("put_pdf", NoOutcome, FALSE, FALSE)
        /\ UNCHANGED <<table, mirror, retriever, clock>>

\* a PDF file is removed from the data directory
RemovePdf ==
    \E f \in DOMAIN data_dir :
        /\ data_dir' = [g \in DOMAIN data_dir \ {f} |-> data_dir[g]]
        /\ rag' = Observation("remove_pdf", NoOutcome, FALSE, FALSE)
        /\ UNCHANGED <<table, mirror, retriever, clock>>

Init == RagInit /\ SessionsInit

Next ==
    /\ \/ IndexDocuments
       \/ AddPdfDocument
       \/ Query
       \/ SearchDocuments
       \/ GetDocumentSummary
       \/ ClearIndex
       \/ ValidateIndex
       \/ GetStatus
       \/ HealthCheck
       \/ Restart
       \/ PutPdf
       \/ RemovePdf
    /\ UNCHANGED chatVars

Spec == Init /\ [][Next]_vars

\* ---- properties of the RAG service --------------------------------------
\* the ids of the rows of the documents table
RowIds(tbl) == {tbl[i].id : i \in 1..Len(tbl)}

\* the last call returned a structured result with a success flag
Structured(r) == ~r.raised /\ "success" \in DOMAIN r.ret

\* the step is a directory indexing with force_reindex = True that reported
\* success, right after a directory indexing that reported success (the data
\* directory is the same in both: any change of it is a step in between)
C1_Case ==
    /\ IndexedNow(rag)
    /\ IndexedNow(rag')
    /\ rag'.force

\* C1: indexing the same PDF content twice (index, then index again with
\* force_reindex = True, no clear in between) leaves count_documents() at its
\* value after the first indexing: every chunk gets the same id on both runs,
\* so the rows are replaced and none is added.
C1_ReindexKeepsCount ==
    [][C1_Case => (Len(table') = Len(table) /\ RowIds(table') = RowIds(table))]_vars

C1_Witness ==
    /\ IndexedNow(rag)
    /\ rag.force
    /\ rag.repeat
    /\ rag.count_before = 2
    /\ Len(table) = 2
    /\ rag.ret.chunks_created = 2

\* the last call was RAGService.query on an empty documents table
C3_Case == rag.op = "query" /\ rag.count_before = 0

\* C3 as stated: a query while no document is indexed returns, without
\* raising, success = false and the "I couldn't find any relevant
\* information" answer.
C3_NoInformationWhenEmpty ==
    C3_Case =>
        /\ Structured(rag)
        /\ rag.ret.success = FALSE
        /\ rag.ret.answer = NoInformationAnswer

\* C3 amended: a query while no document is indexed returns, without raising
\* and without reaching the query pipeline, success = false, the error
\* "Service not ready" and the "The RAG service is not ready" answer.
C3_NotReadyWhenEmpty ==
    C3_Case =>
        /\ Structured(rag)
        /\ rag.ret.success = FALSE
        /\ rag.ret.answer = NotReadyAnswer
        /\ "error" \in DOMAIN rag.ret
        /\ rag.ret.error = "Service not ready"
        /\ rag.ret.sources = <<>>
        /\ "query_pipeline" \notin rag.calls

C3_Witness ==
    /\ C3_Case
    /\ rag.ret.answer = NotReadyAnswer
    /\ rag.ret.question = CharsOf("knee rest")
    /\ rag.mirror_before > 0

\* C4: clear_index on an empty documents table returns success = true and
\* documents_cleared = 0 and deletes nothing, neither from the table nor from
\* the in-memory mirror.
C4_ClearEmptyIndex ==
    [][(rag'.op = "clear_index" /\ table = <<>>) =>
          /\ Structured(rag')
          /\ rag'.ret.success = TRUE
          /\ rag'.ret.documents_cleared = 0
          /\ "delete_documents" \notin rag'.calls
          /\ table' = table
          /\ mirror' = mirror]_vars

C4_Witness ==
    /\ rag.op = "clear_index"
    /\ rag.count_before = 0
    /\ rag.mirror_before > 0
    /\ Len(mirror) = rag.mirror_before
    /\ rag.ret.success = TRUE
    /\ rag.ret.documents_cleared = 0

\* C7: every public operation of the service returns a value and never
\* raises, whichever component fails during the call.
C7_NeverRaises == ~rag.raised

C7_Witness ==
    \/ /\ rag.op = "clear_index"
       /\ "delete_documents" \in rag.calls
       /\ Structured(rag)
       /\ "error" \in DOMAIN rag.ret
    \/ /\ rag.op = "index_documents"
       /\ "write_documents" \in rag.calls
       /\ Structured(rag)
       /\ "error" \in DOMAIN rag.ret

\* the answer of the last query is what generate_response returns when the
\* model call raised or produced no text
GenerationFailed ==
    /\ rag.op = "query"
    /\ "generate_response" \in rag.calls
    /\ rag.ret.answer \in
          {"I encountered an error while generating a response",
           "I apologize, but I couldn't generate a response. Please try again."}

\* C8: when documents are retrieved for a query but the generative model
\* fails (raises or returns no text), the result carries success = false and
\* an error string, never success = true.
C8_GenerationFailureReported ==
    GenerationFailed =>
        /\ rag.ret.success = FALSE
        /\ "error" \in DOMAIN rag.ret

\* C9: every result with success = false of the indexing operations, the
\* query operation and clear_index contains an error string.
C9_FailureCarriesError ==
    ( /\ rag.op \in {"index_documents", "add_pdf_document", "query", "clear_index"}
      /\ Structured(rag)
      /\ rag.ret.success = FALSE )
    => "error" \in DOMAIN rag.ret

\* the result of QueryPipeline.query for a query that yields nothing
NoInformationResult ==
    /\ Structured(rag)
    /\ rag.ret.sources = <<>>
    /\ rag.ret.retrieved_documents = 0
    /\ rag.ret.success = FALSE
    /\ rag.ret.answer = NoInformationAnswer
    /\ "generate_response" \notin rag.calls

\* the last call reached QueryPipeline.query
PipelineQueried == rag.op = "query" /\ "query_pipeline" \in rag.calls

\* C10 as stated: in QueryPipeline.query, when embedding the question fails
\* (empty vector) or retrieval raises, the result has sources = [],
\* retrieved_documents = 0, success = false and the "no relevant information"
\* answer, and the generative model is not called.
C10_DegradesOnAnyFailure ==
    ( /\ PipelineQueried
      /\ \/ "embedding_empty" \in rag.calls
         \/ "retriever_raised" \in rag.calls )
    => NoInformationResult

\* C10 amended: in QueryPipeline.query, when embedding the question fails
\* (empty vector), or the retriever raises and the manual fallback search
\* finds no document either, the result has sources = [],
\* retrieved_documents = 0, success = false and the "no relevant information"
\* answer, and the generative model is not called.
C10_DegradesWhenNothingFound ==
    ( /\ PipelineQueried
      /\ \/ "embedding_empty" \in rag.calls
         \/ {"retriever_raised", "manual_found_nothing"} \subseteq rag.calls )
    => NoInformationResult

C10_Witness ==
    /\ PipelineQueried
    /\ {"retriever_raised", "manual_found_nothing"} \subseteq rag.calls
    /\ rag.mirror_before > 0
    /\ NoInformationResult

\* ---- the chatbot as a state machine -------------------------------------
\* the RAG service is not used by the chatbot and stays as constructed
ChatInit == SessionsInit /\ RagInit /\ retriever = TRUE

ChatNext ==
    /\ \E sender_id \in Senders, message \in Messages :
          get_response(sender_id, message)
    /\ UNCHANGED ragVars

ChatSpec == ChatInit /\ [][ChatNext]_vars

C14_NoChunkBelowThreshold == validate_documents(table) = table

\* a restart on a database that holds documents and could be read
C12_Case == rag.op = "restart" /\ "sqlite_read" \notin rag.calls /\ table # <<>>

StoreDoc(id, content, version) ==
    [id |-> id, content |-> content, meta |-> [version |-> version],
     embedding |-> embed_text(content, FALSE)]

\* LocalDocumentStore.write_documents called with a list of one or two
\* documents; there are two ids, each with two documents that differ in
\* content and in metadata
WriteDocuments ==
    LET StoreDocs ==
            {StoreDoc(id, <<"i", "c", "e">>, 1) : id \in {"d1", "d2"}}
                \cup {StoreDoc(id, <<".", ".", ".">>, 2) : id \in {"d1", "d2"}}
    IN
    \E documents \in {<<d>> : d \in StoreDocs} \cup (StoreDocs \X StoreDocs),
       policy \in {"overwrite", "duplicate_skip"},
       F \in Faults({"sqlite_write"}) :
        /\ table' = write_documents(table, mirror, documents, policy, F).tbl
        /\ mirror' = write_documents(table, mirror, documents, policy, F).mir
        /\ rag' = [op |-> "write_documents", documents |-> documents, policy |-> policy,
                   raised |-> write_documents(table, mirror, documents, policy, F).raised]
        /\ UNCHANGED <<retriever, data_dir, clock>>

\* QueryPipeline.retrieve_documents called on the store as it is; top_k 0
\* stands for the default None
RetrieveDocuments ==
    \E q \in {<<>>, <<"i", "c", "e">>}, top_k \in {0, 1},
       F \in Faults({"embed", "retriever"}) :
        /\ rag' = [op |-> "retrieve_documents", query |-> q, top_k |-> top_k,
                   ret |-> retrieve_documents(table, mirror, retriever, q, top_k, F).documents,
                   calls |-> retrieve_documents(table, mirror, retriever, q, top_k, F).calls]
        /\ UNCHANGED <<table, mirror, retriever, data_dir, clock>>

StoreNext ==
    /\ \/ WriteDocuments
       \/ RetrieveDocuments
    /\ UNCHANGED chatVars

StoreSpec == Init /\ [][StoreNext]_vars

\* ---- properties of the document store -----------------------------------
\* cos(q, a) >= cos(q, b), both defined: the entries are not negative, so the
\* cosines compare as their squares do
CosGeq(q, a, b) ==
    /\ Norm2Num(q) > 0 /\ Norm2Num(a) > 0 /\ Norm2Num(b) > 0
    /\ DotNum(a, q) * DotNum(a, q) * Norm2Num(b)
         >= DotNum(b, q) * DotNum(b, q) * Norm2Num(a)

\* the record stored under an id
Row(seq, id) == CHOOSE r \in {seq[i] : i \in 1..Len(seq)} : r.id = id

OnePerId(seq) == \A i, j \in 1..Len(seq) : seq[i].id = seq[j].id => i = j

\* the record holds the content and the metadata of the document
Holds(r, d) == r.content = d.content /\ r.meta = d.meta

\* the first and the last document of a list that carry an id
FirstWith(documents, id) ==
    documents[CHOOSE k \in 1..Len(documents) :
        /\ documents[k].id = id
        /\ \A j \in 1..(k - 1) : documents[j].id # id]

LastWith(documents, id) ==
    documents[CHOOSE k \in 1..Len(documents) :
        /\ documents[k].id = id
        /\ \A j \in (k + 1)..Len(documents) : documents[j].id # id]

\* a write_documents call that did not raise
C11_Case == rag'.op = "write_documents" /\ ~rag'.raised

C15_FallbackRanked ==
    (rag.op = "retrieve_documents" /\ "embedding_empty" \notin rag.calls) =>
        LET q == embed_text(rag.query, FALSE)
            k == IF rag.top_k = 0 THEN TOP_K ELSE rag.top_k
            r == rag.ret
        IN  /\ ("manual_similarity_search" \in rag.calls)
                  <=> (~retriever \/ "retriever_raised" \in rag.calls)
            /\ "manual_similarity_search" \notin rag.calls =>
                  r = retriever_run(mirror, q, k, FALSE).documents
            /\ "manual_similarity_search" \in rag.calls =>
                  /\ Len(r) <= k
                  /\ \A j \in 1..Len(r) :
                        Truthy(r[j].embedding) /\ HasId(mirror, r[j].id)
                  /\ \A j \in 1..(Len(r) - 1) :
                        CosGeq(q, r[j].embedding, r[j + 1].embedding)

(***************************************************************************)
(*               The embedding service, called directly                    *)
(***************************************************************************)

\* EmbeddingService.embed_text called with a text; with the simple embedding
\* nothing inside its try block raises for a str
EmbedText ==
    \E text \in {<<>>,
                  <<" ", "\n">>,
                  <<"i", "c", "e">>,
                  <<"K", "n", "e", "e", " ", "r", "e", "s", "t">>,
                  <<" ", "i", "c", "e", ",", " ", "i", "c", "e", " ", "r", "e", "s", "t">>,
                  <<".", ".", ".">>,
                  <<"o", "k", ".">>} :
        /\ rag' = [op |-> "embed_text", text |-> text, ret |-> embed_text(text, FALSE)]
        /\ UNCHANGED <<table, mirror, retriever, data_dir, clock>>

\* EmbeddingService.similarity_search called with one to three candidates;
\* the vectors are embeddings of texts, among them the all-zero embedding of
\* a text without a word
SimilaritySearch ==
    LET SearchVectors ==
            {embed_text(t, FALSE) : t \in {<<"i", "c", "e">>,
                                            <<"i", "c", "e", " ", "o", "k">>,
                                            <<".", ".", ".">>}}
    IN
    \E query_embedding \in SearchVectors,
       document_embeddings \in UNION {[1..n -> SearchVectors] : n \in 1..3},
       top_k \in {2, 5} :
        /\ rag' = [op |-> "similarity_search", query_embedding |-> query_embedding,
                   document_embeddings |-> document_embeddings, top_k |-> top_k,
                   ret |-> similarity_search(query_embedding, document_embeddings, top_k)]
        /\ UNCHANGED <<table, mirror, retriever, data_dir, clock>>

EmbeddingNext ==
    /\ \/ EmbedText
       \/ SimilaritySearch
    /\ UNCHANGED chatVars

EmbeddingSpec == Init /\ [][EmbeddingNext]_vars

\* ---- properties of the embedding service --------------------------------
\* the sum of the numerators of an embedding's entries (the entries sum to 1
\* when it equals the common denominator)
EntrySum(e) == SumOver(DOMAIN e.counts, e.counts)

\* a list of 384 entries, none negative
IsEmbedding(e) ==
    /\ e.kind = "list"
    /\ e.len = EMBEDDING_DIMENSION
    /\ e.total > 0
    /\ \A b \in DOMAIN e.counts : b \in 0..(EMBEDDING_DIMENSION - 1) /\ e.counts[b] > 0

Blank(text) == \A i \in 1..Len(text) : IsSpace(text[i])

HasWord(text) == \E i \in 1..Len(text) : WordChar(text[i])

\* C16 as stated: embed_text returns [] for an empty or whitespace-only text
\* and, for every other text, 384 non-negative entries whose sum is 1.
C16_SumsToOne ==
    rag.op = "embed_text" =>
        IF Blank(rag.text) THEN rag.ret = EmptyList
        ELSE IsEmbedding(rag.ret) /\ EntrySum(rag.ret) = rag.ret.total

\* C16: embed_text returns [] for an empty or whitespace-only text and, for
\* every other text, 384 non-negative entries; their sum is 1 when the text
\* holds a word character, and they are all 0 when it holds none.
C16_SumsToOneWithWords ==
    rag.op = "embed_text" =>
        IF Blank(rag.text) THEN rag.ret = EmptyList
        ELSE /\ IsEmbedding(rag.ret)
             /\ HasWord(rag.text) => EntrySum(rag.ret) = rag.ret.total
             /\ ~HasWord(rag.text) => DOMAIN rag.ret.counts = {}

\* a text of three tokens, two of them equal: two non-zero entries, 2/3 and 1/3
C16_Witness ==
    /\ rag.op = "embed_text"
    /\ rag.text = <<" ", "i", "c", "e", ",", " ", "i", "c", "e", " ", "r", "e", "s", "t">>
    /\ rag.ret.total = 3
    /\ Cardinality(DOMAIN rag.ret.counts) = 2
    /\ \E b \in DOMAIN rag.ret.counts : rag.ret.counts[b] = 2

\* C17: for a non-empty query vector and n >= 1 candidates similarity_search
\* returns min(top_k, n) distinct indices of candidates, each one's cosine
\* similarity to the query at least that of the next, and the first one's at
\* least that of every candidate.
C17_RankedBySimilarity ==
    rag.op = "similarity_search" =>
        LET q == rag.query_embedding
            e == rag.document_embeddings
            n == Len(e)
            r == rag.ret
        IN  /\ Len(r) = (IF rag.top_k < n THEN rag.top_k ELSE n)
            /\ \A k \in 1..Len(r) : r[k] \in 1..n
            /\ \A k, l \in 1..Len(r) : r[k] = r[l] => k = l
            /\ \A k \in 1..(Len(r) - 1) : CosGeq(q, e[r[k]], e[r[k + 1]])
            /\ \A i \in 1..n : CosGeq(q, e[r[1]], e[i])

\* C18: of two returned candidates with equal cosine similarity to the query,
\* the one with the lower index comes first in the result.
C18_TiesInArrayOrder ==
    rag.op = "similarity_search" =>
        LET q == rag.query_embedding
            e == rag.document_embeddings
            r == rag.ret
        IN  \A k, l \in 1..Len(r) :
                (k < l /\ CosGeq(q, e[r[k]], e[r[l]]) /\ CosGeq(q, e[r[l]], e[r[k]]))
                    => r[k] < r[l]

\* the step is RAGService.index_documents(force_reindex = False) on a
\* documents table that holds at least one record
C21_Case == rag'.op = "index_documents" /\ ~rag'.force /\ table # <<>>

\* C21: index_documents with force_reindex = False while the documents table
\* holds at least one record returns success = true, skipped_indexing = true
\* and documents_processed = 0 and leaves the documents table and the
\* in-memory mirror unchanged: no PDF is loaded and nothing is written.
C21_SkipsWhenIndexed ==
    [][C21_Case =>
          /\ Structured(rag')
          /\ rag'.ret.success = TRUE
          /\ "skipped_indexing" \in DOMAIN rag'.ret
          /\ rag'.ret.skipped_indexing = TRUE
          /\ rag'.ret.documents_processed = 0
          /\ rag'.calls = {}
          /\ table' = table
          /\ mirror' = mirror]_vars

\* the fixed result of each read operation of the service when it is not ready
NotReadyResult(r) ==
    /\ ~r.raised
    /\ r.calls = {}
    /\ \/ /\ r.op = "query"
          /\ "answer" \in DOMAIN r.ret
          /\ r.ret.answer = NotReadyAnswer
          /\ r.ret.success = FALSE
          /\ r.ret.error = "Service not ready"
          /\ r.ret.sources = <<>>
       \/ /\ r.op = "search_documents"
          /\ r.ret = [value |-> <<>>]
       \/ /\ r.op = "get_document_summary"
          /\ r.ret = [value |->
                 "No documents available for summarization. Please index documents first."]

\* C22: the service is ready exactly when the documents table is non-empty:
\* query, search_documents and get_document_summary reach the query pipeline
\* when the table holds a record and return their fixed not-ready result when
\* it holds none; a clear_index that reports success leaves the table empty,
\* and an empty table becomes non-empty only by an indexing call that reports
\* success with at least one chunk written, so every query in between is
\* answered not-ready.
C22_ReadyIffIndexed ==
    [][/\ rag'.op \in {"query", "search_documents", "get_document_summary"} =>
             IF table # <<>> THEN "query_pipeline" \in rag'.calls
                             ELSE NotReadyResult(rag')
       /\ (rag'.op = "clear_index" /\ Structured(rag') /\ rag'.ret.success) =>
             table' = <<>>
       /\ (table = <<>> /\ table' # <<>>) =>
             /\ rag'.op \in {"index_documents", "add_pdf_document"}
             /\ Structured(rag')
             /\ rag'.ret.success
             /\ rag'.ret.chunks_created >= 1]_vars

\* C23: clear_index on a non-empty documents table reports success = true
\* exactly when the table is empty after the call, documents_cleared is the
\* number of records before the call minus the number after it, and when it
\* reports success the in-memory mirror is empty too.
C23_ClearReportsWhatItDid ==
    [][(rag'.op = "clear_index" /\ table # <<>>) =>
          /\ Structured(rag')
          /\ rag'.ret.success = (table' = <<>>)
          /\ rag'.ret.documents_cleared = Len(table) - Len(table')
          /\ rag'.ret.success => mirror' = <<>>]_vars

(***************************************************************************)
(*               recommend_exercises, called directly                      *)
(***************************************************************************)

\* recommend_exercises called with a recognised body part or None and a
\* recognised condition or None
RecommendExercises ==
    \E body_part \in {BODY_PARTS[i] : i \in DOMAIN BODY_PARTS} \cup {None},
       condition \in {CONDITIONS[i] : i \in DOMAIN CONDITIONS} \cup {None} :
        /\ rag' = [op |-> "recommend_exercises", body_part |-> body_part,
                   condition |-> condition,
                   ret |-> recommend_exercises(body_part, condition)]
        /\ UNCHANGED <<table, mirror, retriever, data_dir, clock>>

ExerciseNext == RecommendExercises /\ UNCHANGED chatVars

ExerciseSpec == Init /\ [][ExerciseNext]_vars

\* the exercise lists of the "general" entry of EXERCISES
GeneralLists == {EXERCISES["general"][i].exercises : i \in DOMAIN EXERCISES["general"]}

\* C24: for every body part of BODY_PARTS or None and every condition of
\* CONDITIONS or None, recommend_exercises returns a non-empty numbered
\* exercise list and never the "I don't have specific exercises" text: the
\* list of (body_part, condition) when EXERCISES has it, otherwise the list of
\* the first condition of the body part when EXERCISES has the body part,
\* otherwise a list of the "general" entry, which is general conditioning
\* when no body part is given.
C24_AlwaysAList ==
    rag.op = "recommend_exercises" =>
        LET bp == rag.body_part
            r  == rag.ret
        IN  /\ r.kind = "recommend_exercises"
            /\ r.exercises # <<>>
            /\ IF bp # None /\ bp \in DOMAIN EXERCISES
               THEN IF \E i \in DOMAIN EXERCISES[bp] :
                           EXERCISES[bp][i].condition = rag.condition
                    THEN \E i \in DOMAIN EXERCISES[bp] :
                            /\ EXERCISES[bp][i].condition = rag.condition
                            /\ r.exercises = EXERCISES[bp][i].exercises
                    ELSE r.exercises = EXERCISES[bp][1].exercises
               ELSE /\ r.exercises \in GeneralLists
                    /\ bp = None => r.exercises = <<"Walking", "Chair Squats", "Arm Circles">>

C24_Witness ==
    /\ rag.op = "recommend_exercises"
    /\ rag.body_part = "ankle"
    /\ rag.condition = "stiffness"
    /\ rag.ret.kind = "recommend_exercises"
    /\ rag.ret.exercises = <<"Ankle Circles", "Towel Stretch">>

\* ---- more chatbot claims (checked under ChatSpec) -------------------------
\* C25: between get_response calls a session with awaiting = "body_part" has
\* body_part = None: the session never waits for a body part it holds.
C25_AwaitedBodyPartIsMissing ==
    \A s \in DOMAIN SESSIONS :
        SESSIONS[s].awaiting = "body_part" => SESSIONS[s].body_part = None

\* a session that holds a condition starts waiting for the body part, and
\* keeps waiting over a message that names no body part
C25_Witness ==
    /\ Called
    /\ SESSIONS[chat.sender].awaiting = "body_part"
    /\ SESSIONS[chat.sender].body_part = None
    /\ SESSIONS[chat.sender].condition # None
    /\ chat.before.awaiting = "body_part"
    /\ chat.intent = "default"
    /\ "condition" \in DOMAIN chat.entities

\* C26: between get_response calls a session with awaiting = "condition" has
\* a body_part other than None, so the recommendation emitted when the awaited
\* condition arrives is for a body part the user supplied and never for the
\* "general" default.
C26_AwaitedConditionHasBodyPart ==
    /\ \A s \in DOMAIN SESSIONS :
          SESSIONS[s].awaiting = "condition" => SESSIONS[s].body_part # None
    /\ (Called /\ chat.before.awaiting = "condition"
               /\ "condition" \in DOMAIN chat.entities) =>
          /\ IsRecommendation
          /\ chat.responses[1].text.body_part # "general"
          /\ chat.responses[1].text.body_part = chat.filled.body_part

\* the intents answered with a fixed text or with the general information
InformationIntents == SmallTalk \cup {"ask_physiotherapy_info"}

\* C27: a message detected as greet, goodbye, thanks, bot_challenge,
\* request_help or ask_physiotherapy_info changes only last_intent of the
\* sender's session (body_part, condition and awaiting keep their values), and
\* a get_response call leaves the sessions of all other senders unchanged.
C27_InformationKeepsSlots ==
    [][/\ chat'.intent \in InformationIntents =>
             SESSIONS'[chat'.sender] =
                 [(IF chat'.sender \in DOMAIN SESSIONS THEN SESSIONS[chat'.sender]
                   ELSE NewSession) EXCEPT !.last_intent = chat'.intent]
       /\ \A s \in DOMAIN SESSIONS \ {chat'.sender} :
             s \in DOMAIN SESSIONS' /\ SESSIONS'[s] = SESSIONS[s]]_vars

\* a thanks message that names a body part and a condition, sent to a session
\* that waits for the condition of another body part, next to another session
C27_Witness ==
    /\ Called
    /\ chat.message = "Thanks, my knee pain is gone"
    /\ chat.intent = "thanks"
    /\ chat.before.awaiting = "condition"
    /\ chat.before.body_part = "ankle"
    /\ SESSIONS[chat.sender] = [chat.before EXCEPT !.last_intent = "thanks"]
    /\ \E s \in DOMAIN SESSIONS : s # chat.sender /\ SESSIONS[s].awaiting = "body_part"

\* ---- the two stores of LocalDocumentStore --------------------------------
\* the failures of an operation of the document store
StoreFaults == {"sqlite_count", "vector_write", "sqlite_write", "vector_read",
                "sqlite_read", "vector_delete", "sqlite_delete"}

\* the step is the call op, with the outcome o
IsCall(op, o) ==
    /\ rag'.op = op
    /\ rag'.raised = o.raised
    /\ rag'.ret = o.ret
    /\ table' = o.tbl
    /\ mirror' = o.mir

\* the step is an index_documents, add_pdf_document or clear_index call in
\* which no store operation raises (another component may fail)
CallWithoutStoreFailure ==
    \/ \E force_reindex \in BOOLEAN, F \in Faults(IndexFaults \ StoreFaults) :
          IsCall("index_documents",
                 index_documents(table, mirror, data_dir, force_reindex, clock + 1, F))
    \/ \E pdf_path \in Paths, F \in Faults(AddFaults \ StoreFaults) :
          IsCall("add_pdf_document",
                 add_pdf_document(table, mirror, data_dir, pdf_path, clock + 1, F))
    \/ IsCall("clear_index", clear_index(table, mirror, {}))

\* the step is a construction of RAGService in which no store operation raises
ConstructionWithoutStoreFailure ==
    /\ rag'.op = "restart"
    /\ table' = table
    /\ mirror' = sync_stores(table, <<>>, {})

\* C28: after the construction of RAGService and any sequence of
\* index_documents, add_pdf_document and clear_index calls in which no store
\* operation raises, the ids of the documents in the in-memory mirror are the
\* ids of the rows of the documents table: a construction makes the two sets
\* equal and each such call keeps them equal.
C28_MirrorIdsAreTableIds ==
    [][(\/ ConstructionWithoutStoreFailure
        \/ (RowIds(mirror) = RowIds(table) /\ CallWithoutStoreFailure))
          => RowIds(mirror') = RowIds(table')]_vars

\* a forced indexing that wrote the two chunks of the PDF again, to both stores
C28_Witness ==
    /\ IndexedNow(rag)
    /\ rag.force
    /\ "write_documents" \in rag.calls
    /\ rag.count_before = 2
    /\ rag.mirror_before = 2
    /\ Len(table) = 2
    /\ RowIds(mirror) = RowIds(table)
    /\ \E i \in 1..Len(table) : table[i].meta.preprocessing_timestamp = 2

\* the step is an indexing call that returned success = false
FailedIndexing ==
    /\ rag'.op \in {"index_documents", "add_pdf_document"}
    /\ Structured(rag')
    /\ rag'.ret.success = FALSE

\* C29: when write_documents raises while writing a batch the documents
\* table is exactly as it was before the call, whether write_documents is
\* called directly or by an indexing call, and an indexing call that returns
\* success = false leaves the documents table unchanged.
C29_FailedWriteKeepsTable ==
    [][/\ (rag'.op = "write_documents" /\ rag'.raised) => table' = table
       /\ (FailedIndexing /\ "write_documents" \in rag'.calls) => table' = table
       /\ FailedIndexing => table' = table]_vars

\* an indexing whose write raised after the in-memory store was written: the
\* two chunks are in the mirror and the table is still empty
C29_Witness ==
    /\ rag.op = "index_documents"
    /\ Structured(rag)
    /\ rag.ret.success = FALSE
    /\ "write_documents" \in rag.calls
    /\ rag.count_before = 0
    /\ rag.mirror_before = 0
    /\ Len(mirror) = 2
    /\ table = <<>>

====
